---- MODULE Spec2Model ----
(***************************************************************************)
(* Model of the Codex compiler pipeline (codex/compiler/compiler.py), the  *)
(* completion client (codex/openai/__init__.py) and the configuration      *)
(* validator (codex/compiler/config.py).                                   *)
(*                                                                         *)
(* Texts are sequences of one-character strings, so that concatenation,    *)
(* case folding, word boundaries and placeholder substitution are computed *)
(* the way the Python code computes them.                                  *)
(***************************************************************************)
EXTENDS FiniteSets, Integers, Sequences, TLC

(***************************************************************************)
(* Bounds of the model.                                                    *)
(***************************************************************************)
\* longest module (number of top-level statements) that is compiled
MaxStmts == 3

(***************************************************************************)
(* Text helpers.                                                           *)
(***************************************************************************)
NL == "\n"

UpperCase == <<"A", "B", "C", "D", "E", "F", "G", "H", "I", "J", "K", "L", "M",
               "N", "O", "P", "Q", "R", "S", "T", "U", "V", "W", "X", "Y", "Z">>

LowerCase == <<"a", "b", "c", "d", "e", "f", "g", "h", "i", "j", "k", "l", "m",
               "n", "o", "p", "q", "r", "s", "t", "u", "v", "w", "x", "y", "z">>

Digits == {"0", "1", "2", "3", "4", "5", "6", "7", "8", "9"}

\* the elements of a sequence
Range(s) == {s[i] : i \in DOMAIN s}

\* the lower-case letter of every upper-case letter
LowerOf == [c \in Range(UpperCase) |->
               LowerCase[CHOOSE i \in DOMAIN UpperCase : UpperCase[i] = c]]

\* str.lower() on one character
LowerChar(c) == IF c \in DOMAIN LowerOf THEN LowerOf[c] ELSE c

\* str.lower()
Lower(text) == [i \in DOMAIN text |-> LowerChar(text[i])]

\* the characters the regular expression class \w matches
WordChars == Range(UpperCase) \cup Range(LowerCase) \cup Digits \cup {"_"}

\* a character the regular expression class \w matches
IsWordChar(c) == c \in WordChars

\* the regular expression assertion \b at the gap before text[p] (p in 1..Len+1)
WordBoundary(text, p) ==
    LET before == p > 1 /\ IsWordChar(text[p - 1])
        after  == p <= Len(text) /\ IsWordChar(text[p])
    IN  before # after

\* text[p..] starts with pat
StartsWithAt(text, pat, p) ==
    /\ p + Len(pat) - 1 <= Len(text)
    /\ \A k \in 1..Len(pat) : text[p + k - 1] = pat[k]

\* re.findall(r"\b" + word + r"\b", text) is non-empty (word has no regex operators)
WholeWordSearch(word, text) ==
    \E p \in 1..Len(text) :
        /\ StartsWithAt(text, word, p)
        /\ WordBoundary(text, p)
        /\ WordBoundary(text, p + Len(word))

RECURSIVE ReplaceFrom(_, _, _, _)
\* str.replace scanning from position p: every non-overlapping occurrence, left to right
ReplaceFrom(text, old, new, p) ==
    IF p > Len(text) THEN <<>>
    ELSE IF StartsWithAt(text, old, p)
         THEN new \o ReplaceFrom(text, old, new, p + Len(old))
         ELSE <<text[p]>> \o ReplaceFrom(text, old, new, p + 1)

\* str.replace(old, new) for a non-empty old
Replace(text, old, new) == ReplaceFrom(text, old, new, 1)

\* writeln with `=` for `+=`: the data replaces the buffer
WritelnOverwriting(buffer, data) == data \o <<NL>>

\* StringBuilder.writeln: the buffer after data and a newline are appended
Writeln(buffer, data) == buffer \o data \o <<NL>>

(***************************************************************************)
(* Type registry and standard module registry.                             *)
(***************************************************************************)
\* names of the base types, in list order
BASE_TYPES == <<"int", "float", "string", "bool">>

\* StdLibTypes
StdLibTypes == [Matrix |-> "matrix", Array |-> "array"]

\* StandardLibrary, in definition order (the order get_all_standard_modules returns)
StandardLibrary ==
    << [name |-> "array",
        keywords |-> << <<"a", "r", "r", "a", "y">>, <<"v", "e", "c", "t", "o", "r">>,
                        <<"l", "i", "s", "t">> >>,
        include_by_default |-> TRUE,
        module_types |-> <<StdLibTypes.Array>>],
       [name |-> "math",
        keywords |-> << <<"m", "a", "t", "h">>, <<"s", "q", "r", "t">>, <<"c", "o", "s">>,
                        <<"s", "i", "n">>, <<"t", "a", "n">>,
                        <<"c", "o", "s", "i", "n", "e">>, <<"s", "i", "n", "e">>,
                        <<"t", "a", "n", "g", "e", "n", "t">> >>,
        include_by_default |-> TRUE,
        module_types |-> <<>>],
       [name |-> "fs",
        keywords |-> <<>>,
        include_by_default |-> FALSE,
        module_types |-> <<>>],
       [name |-> "json",
        keywords |-> << <<"j", "s", "o", "n">> >>,
        include_by_default |-> FALSE,
        module_types |-> <<>>],
       [name |-> "random",
        keywords |-> << <<"r", "a", "n", "d", "o", "m">>, <<"r", "a", "n", "d">>,
                        <<"r", "a", "n", "d", "o", "m", "i", "z", "e">> >>,
        include_by_default |-> FALSE,
        module_types |-> <<>>],
       [name |-> "linalg",
        keywords |-> << <<"m", "a", "t", "r", "i", "x">>,
                        <<"2", "d", " ", "a", "r", "r", "a", "y">>,
                        <<"n", "d", " ", "a", "r", "r", "a", "y">> >>,
        include_by_default |-> FALSE,
        module_types |-> <<StdLibTypes.Matrix>>] >>

\* the value None where a name (a string) is expected
None == "None"

\* the value None where a text is expected: a sequence that no text equals
NoneText == <<None>>

\* the value None where a StandardModule is expected
NoModule == [name |-> None, keywords |-> <<>>, include_by_default |-> FALSE,
             module_types |-> <<>>]

\* get_all_standard_modules
get_all_standard_modules == StandardLibrary

\* get_standard_module: the first module with that name, or None
get_standard_module(name) ==
    IF \E i \in DOMAIN StandardLibrary : StandardLibrary[i].name = name
    THEN StandardLibrary[CHOOSE i \in DOMAIN StandardLibrary :
                            /\ StandardLibrary[i].name = name
                            /\ \A j \in 1..(i - 1) : StandardLibrary[j].name # name]
    ELSE NoModule

(***************************************************************************)
(* The Python 3 language binding.                                          *)
(***************************************************************************)
\* ModuleBinding(module): every optional field left out
ModuleBinding(module) ==
    [module |-> module.name, analogous_module |-> NoneText, polyfill |-> NoneText]

\* the value None where a ModuleBinding is expected
NoBinding == [module |-> None, analogous_module |-> NoneText, polyfill |-> NoneText]

\* the module bindings of the Python 3 target, by module name
stdlib_binding_modules ==
    [math   |-> [module |-> "math", analogous_module |-> <<"m", "a", "t", "h">>,
                 polyfill |-> NoneText],
     json   |-> [module |-> "json", analogous_module |-> <<"j", "s", "o", "n">>,
                 polyfill |-> NoneText],
     random |-> [module |-> "random", analogous_module |-> <<"r", "a", "n", "d", "o", "m">>,
                 polyfill |-> NoneText],
     linalg |-> [module |-> "linalg", analogous_module |-> NoneText,
                 polyfill |-> <<"i", "m", "p", "o", "r", "t", " ", "n", "u", "m", "p", "y",
                                " ", "a", "s", " ", "n", "p">>]]

\* the modules the Python 3 target marks unsupported
stdlib_binding_unsupported == {}

\* StandardLibraryBinding.is_module_supported
is_module_supported(module) == module.name \notin stdlib_binding_unsupported

\* get_module_binding without the default of _module_bindings.get: None for a module
\* that has no binding of its own
get_module_binding_explicit_only(module) ==
    IF ~is_module_supported(module) THEN NoBinding
    ELSE IF module.name \in DOMAIN stdlib_binding_modules
         THEN stdlib_binding_modules[module.name]
         ELSE NoBinding

\* StandardLibraryBinding.get_module_binding
get_module_binding(module) ==
    IF ~is_module_supported(module) THEN NoBinding
    ELSE IF module.name \in DOMAIN stdlib_binding_modules
         THEN stdlib_binding_modules[module.name]
         ELSE ModuleBinding(module)

\* PythonLanguageBinding.generate_import
generate_import(module) == <<"i", "m", "p", "o", "r", "t", " ">> \o module

\* PythonLanguageBinding.generate_single_line_comment
generate_single_line_comment(text) == <<"#", " ">> \o text

\* PythonLanguageBinding.generate_incomplete_variable_assignment
generate_incomplete_variable_assignment(name, type) == name \o <<" ", "=", " ">>

\* PythonLanguageBinding.generate_variable_assignment
generate_variable_assignment(name, type, value) == name \o <<" ", "=", " ">> \o value

(***************************************************************************)
(* Code generation templates (codex/compiler/codegen.py).                  *)
(***************************************************************************)
\* the placeholder {{GENERATED}}
GENERATED == <<"{", "{", "G", "E", "N", "E", "R", "A", "T", "E", "D", "}", "}">>

\* Codegen.generate_action: the generation template of the blueprint
generate_action_template(action_prompt) ==
    Writeln(Writeln(<<>>, generate_single_line_comment(action_prompt)), GENERATED)

\* Codegen.generate_variable_decl: the generation template of the blueprint
generate_variable_decl_template(name, type, variable_prompt) ==
    Writeln(Writeln(<<>>, generate_single_line_comment(variable_prompt)),
            generate_variable_assignment(name, type, GENERATED))

(***************************************************************************)
(* The completion client (codex/openai/__init__.py).                       *)
(***************************************************************************)
DAVINCI_MAX_TOKENS == 4000

\* the smaller of two integers
Min(a, b) == IF a < b THEN a ELSE b

\* what the completion service can answer to one request: generated text, an
\* "error" object, or no answer at all (the transport raises)
NoReply == [kind |-> "none", text |-> <<>>]

\* generate_code without the check for an "error" field: the failed answer is taken
\* for an empty generation
generate_code_unchecked_error(prompt_tokens, target_max_tokens, reply) ==
    IF prompt_tokens > DAVINCI_MAX_TOKENS
    THEN [sent |-> FALSE, max_tokens |-> 0, reply |-> NoReply,
          raised |-> "ValueError", text |-> <<>>]
    ELSE [sent |-> TRUE,
          max_tokens |-> IF target_max_tokens = 0
                         THEN DAVINCI_MAX_TOKENS - prompt_tokens
                         ELSE Min(DAVINCI_MAX_TOKENS - prompt_tokens, target_max_tokens),
          reply |-> reply,
          raised |-> IF reply.kind = "exception" THEN "RequestException" ELSE None,
          text |-> reply.text]

\* generate_code with `>=` for `>` in the ceiling test, and 0 not taken as "no cap"
generate_code_off_by_one(prompt_tokens, target_max_tokens, reply) ==
    IF prompt_tokens >= DAVINCI_MAX_TOKENS
    THEN [sent |-> FALSE, max_tokens |-> 0, reply |-> NoReply,
          raised |-> "ValueError", text |-> <<>>]
    ELSE [sent |-> TRUE,
          max_tokens |-> Min(DAVINCI_MAX_TOKENS - prompt_tokens, target_max_tokens),
          reply |-> reply,
          raised |-> CASE reply.kind = "error" -> "OpenAICodexError"
                       [] reply.kind = "exception" -> "RequestException"
                       [] OTHER -> None,
          text |-> IF reply.kind = "ok" THEN reply.text ELSE <<>>]

\* OpenAI.generate_code for a prompt of prompt_tokens tokens, when the service would
\* answer reply: whether a request is sent, its max_tokens, and the text returned
\* or the exception raised
generate_code(prompt_tokens, target_max_tokens, reply) ==
    IF prompt_tokens > DAVINCI_MAX_TOKENS
    THEN [sent |-> FALSE, max_tokens |-> 0, reply |-> NoReply,
          raised |-> "ValueError", text |-> <<>>]
    ELSE LET tokens_left == DAVINCI_MAX_TOKENS - prompt_tokens
             max_tokens  == IF target_max_tokens = 0
                            THEN tokens_left
                            ELSE Min(tokens_left, target_max_tokens)
         IN  [sent |-> TRUE, max_tokens |-> max_tokens, reply |-> reply,
              raised |-> CASE reply.kind = "error" -> "OpenAICodexError"
                           [] reply.kind = "exception" -> "RequestException"
                           [] OTHER -> None,
              text |-> IF reply.kind = "ok" THEN reply.text ELSE <<>>]

(***************************************************************************)
(* The compiler (codex/compiler/compiler.py).                              *)
(***************************************************************************)
VARIABLES
    module,         \* Compiler.module.children: the statements, in source order
    status,         \* "constructed", "running", "returned" or "raised": where compile() is
    pc,             \* index of the statement the loop of compile() is at
    header,         \* Compiler._header
    program,        \* Compiler._program
    errors,         \* Compiler._errors
    warnings,       \* Compiler._warnings
    used_modules,   \* Compiler._used_modules (module names)
    custom_types,   \* Compiler._custom_types (type names)
    calls,          \* the calls of OpenAI.generate_code made so far, in order
    config,         \* the CompilerConfig
    validation      \* "pending", or how validate_config(config) ended

\* the front end: the source and the parser (codex/parser), the prompt a truncation
\* works on (codex/openai/prompts.py) and the command line (codex/cli/__init__.py)
VARIABLES
    source,             \* the CodexSource: [content, lines], or NoSource before it is loaded
    current_line_idx,   \* Parser.current_line_idx
    parsing,            \* "idle", "running", "returned" or "raised": where Parser.parse() is
    children,           \* module.children of the Module that parse() builds
    exception,          \* the exception that left parse() or run_cli(), or NoException
    truncation,         \* the prompt truncate_prompt works on, with what it was before
    cli_pc,             \* where run_cli() is
    args,               \* the command line and the files it names
    stderr,             \* the diagnostics run_cli() has printed, in order
    output_file         \* what run_cli() wrote to the output path, or NoOutput

front_vars == <<source, current_line_idx, parsing, children, exception, truncation,
                cli_pc, args, stderr, output_file>>

vars == <<module, status, pc, header, program, errors, warnings, used_modules,
          custom_types, calls, config, validation, front_vars>>

\* CompilerError(message, node); what the message is about is kept apart from its wording
CompilerError(message, about, keyword, node) ==
    [message |-> message, about |-> about, keyword |-> keyword, node |-> node]

\* the per-statement token cap Compiler._generate_snippet asks for
SNIPPET_MAX_TOKENS == 150

\* Compiler._register_custom_type; raised tells that it raised ValueError
register_custom_type(registry, type) ==
    IF type \in registry
    THEN [custom_types |-> registry, raised |-> TRUE]
    ELSE IF \E i \in DOMAIN BASE_TYPES : type = BASE_TYPES[i]
         THEN [custom_types |-> registry, raised |-> TRUE]
         ELSE [custom_types |-> registry \cup {type}, raised |-> FALSE]

RECURSIVE register_module_types(_, _, _)
\* the loop "for type in module.module_types" of _include_module, from the i-th type on
register_module_types(registry, types, i) ==
    IF i > Len(types) THEN [custom_types |-> registry, raised |-> FALSE]
    ELSE LET r == register_custom_type(registry, types[i])
         IN  IF r.raised THEN r ELSE register_module_types(r.custom_types, types, i + 1)

\* _include_module without `self._used_modules.add(module)`
include_module_unmarked(st, mod) ==
    LET binding == get_module_binding(mod)
        h1      == IF binding.analogous_module # NoneText
                   THEN Writeln(st.header, generate_import(binding.analogous_module))
                   ELSE st.header
        h2      == IF binding.polyfill # NoneText
                   THEN Writeln(h1, binding.polyfill)
                   ELSE h1
        reg     == register_module_types(st.custom_types, mod.module_types, 1)
    IN  [header |-> h2, used_modules |-> st.used_modules,
         custom_types |-> reg.custom_types, raised |-> reg.raised]

\* Compiler._include_module on the state st = [header, used_modules, custom_types]
include_module(st, mod) ==
    LET binding == get_module_binding(mod)
        used    == st.used_modules \cup {mod.name}
        h1      == IF binding.analogous_module # NoneText
                   THEN Writeln(st.header, generate_import(binding.analogous_module))
                   ELSE st.header
        h2      == IF binding.polyfill # NoneText
                   THEN Writeln(h1, binding.polyfill)
                   ELSE h1
        reg     == register_module_types(st.custom_types, mod.module_types, 1)
    IN  IF binding = NoBinding
        THEN [header |-> st.header, used_modules |-> used,
              custom_types |-> st.custom_types, raised |-> TRUE]
        ELSE [header |-> h2, used_modules |-> used,
              custom_types |-> reg.custom_types, raised |-> reg.raised]

RECURSIVE include_default_modules(_, _)
\* the first loop of compile(): include the default modules from the i-th module on
include_default_modules(st, i) ==
    IF i > Len(get_all_standard_modules) THEN st
    ELSE LET mod == get_all_standard_modules[i]
         IN  IF mod.include_by_default
             THEN LET r == include_module(st, mod)
                  IN  IF r.raised THEN r ELSE include_default_modules(r, i + 1)
             ELSE include_default_modules(st, i + 1)

\* _resolve_type without the lookup in the custom registry
resolve_type_base_only(registry, type_name) ==
    IF \E i \in DOMAIN BASE_TYPES : type_name = BASE_TYPES[i]
    THEN type_name
    ELSE None

\* Compiler._resolve_type: the name of the type found, or None
resolve_type(registry, type_name) ==
    IF \E i \in DOMAIN BASE_TYPES : type_name = BASE_TYPES[i]
    THEN type_name
    ELSE IF type_name \in registry THEN type_name ELSE None

\* the keyword test without the \b assertions: the keyword anywhere in the text
keyword_found_anywhere(keyword, prompt_text) ==
    \E p \in 1..Len(prompt_text) : StartsWithAt(Lower(prompt_text), Lower(keyword), p)

\* the test of one keyword in _check_prompt_for_unincluded_modules
keyword_found(keyword, prompt_text) == WholeWordSearch(Lower(keyword), Lower(prompt_text))

RECURSIVE check_keywords(_, _, _, _, _)
\* the loop over module.keywords, from the k-th keyword on: stops at the first hit
check_keywords(warns, mod, k, node, prompt_text) ==
    IF k > Len(mod.keywords) THEN warns
    ELSE IF keyword_found(mod.keywords[k], prompt_text)
         THEN Append(warns, CompilerError("PromptMentions", mod.name, mod.keywords[k], node))
         ELSE check_keywords(warns, mod, k + 1, node, prompt_text)

RECURSIVE check_modules(_, _, _, _, _)
\* the loop over get_all_standard_modules(), from the i-th module on
check_modules(warns, used, i, node, prompt_text) ==
    IF i > Len(get_all_standard_modules) THEN warns
    ELSE LET mod == get_all_standard_modules[i]
         IN  IF mod.include_by_default \/ mod.name \in used
             THEN check_modules(warns, used, i + 1, node, prompt_text)
             ELSE check_modules(check_keywords(warns, mod, 1, node, prompt_text),
                                used, i + 1, node, prompt_text)

\* Compiler._check_prompt_for_unincluded_modules: the warnings afterwards
check_prompt_for_unincluded_modules(warns, used, node, prompt_text) ==
    check_modules(warns, used, 1, node, prompt_text)

\* _compile_using_directive without the test for a default-included module
compile_using_directive_no_default_test(st, node, idx) ==
    LET mod      == get_standard_module(node.module_name)
        same     == [header |-> st.header, used_modules |-> st.used_modules,
                     custom_types |-> st.custom_types, errors |-> st.errors,
                     warnings |-> st.warnings, raised |-> FALSE]
        included == include_module(st, mod)
    IN  IF mod = NoModule
        THEN [same EXCEPT !.errors =
                 Append(st.errors, CompilerError("UnknownModule", node.module_name, <<>>, idx))]
        ELSE IF ~is_module_supported(mod)
        THEN [same EXCEPT !.errors =
                 Append(st.errors, CompilerError("NotSupported", mod.name, <<>>, idx))]
        ELSE IF mod.name \in st.used_modules
        THEN [same EXCEPT !.warnings =
                 Append(st.warnings, CompilerError("AlreadyImported", mod.name, <<>>, idx))]
        ELSE [header |-> included.header, used_modules |-> included.used_modules,
              custom_types |-> included.custom_types, errors |-> st.errors,
              warnings |-> st.warnings, raised |-> included.raised]

\* Compiler._compile_using_directive on the state st
compile_using_directive(st, node, idx) ==
    LET mod      == get_standard_module(node.module_name)
        same     == [header |-> st.header, used_modules |-> st.used_modules,
                     custom_types |-> st.custom_types, errors |-> st.errors,
                     warnings |-> st.warnings, raised |-> FALSE]
        included == include_module(st, mod)
    IN  IF mod = NoModule
        THEN [same EXCEPT !.errors =
                 Append(st.errors, CompilerError("UnknownModule", node.module_name, <<>>, idx))]
        ELSE IF mod.include_by_default
        THEN [same EXCEPT !.warnings =
                 Append(st.warnings, CompilerError("IncludedByDefault", mod.name, <<>>, idx))]
        ELSE IF ~is_module_supported(mod)
        THEN [same EXCEPT !.errors =
                 Append(st.errors, CompilerError("NotSupported", mod.name, <<>>, idx))]
        ELSE IF mod.name \in st.used_modules
        THEN [same EXCEPT !.warnings =
                 Append(st.warnings, CompilerError("AlreadyImported", mod.name, <<>>, idx))]
        ELSE [header |-> included.header, used_modules |-> included.used_modules,
              custom_types |-> included.custom_types, errors |-> st.errors,
              warnings |-> st.warnings, raised |-> included.raised]

\* the record of one call of generate_code: the statement it is made for, the codegen
\* context set before it (_set_codegen_context), and what generate_code did
CallRecord(idx, required, helpful, prompt_tokens, target_max_tokens, gen) ==
    [stmt |-> idx, required_context |-> required, helpful_context |-> helpful,
     prompt_tokens |-> prompt_tokens, target_max_tokens |-> target_max_tokens,
     sent |-> gen.sent, max_tokens |-> gen.max_tokens, reply |-> gen.reply,
     raised |-> gen.raised]

\* the same with the codegen context never set: the call is made without context
generate_snippet_without_context(st, idx, template, prompt_tokens, reply) ==
    LET gen == generate_code(prompt_tokens, SNIPPET_MAX_TOKENS, reply)
    IN  [program |-> IF gen.raised = None
                     THEN Writeln(st.program, Replace(template, GENERATED, gen.text))
                     ELSE st.program,
         errors  |-> st.errors,
         calls   |-> Append(st.calls, CallRecord(idx, <<>>, <<>>, prompt_tokens,
                                                 SNIPPET_MAX_TOKENS, gen)),
         raised  |-> gen.raised]

\* Compiler._generate_snippet followed by _program.writeln, for a template
generate_snippet(st, idx, template, prompt_tokens, reply) ==
    LET gen == generate_code(prompt_tokens, SNIPPET_MAX_TOKENS, reply)
    IN  [program |-> IF gen.raised = None
                     THEN Writeln(st.program, Replace(template, GENERATED, gen.text))
                     ELSE st.program,
         errors  |-> st.errors,
         calls   |-> Append(st.calls, CallRecord(idx, st.header, st.program, prompt_tokens,
                                                 SNIPPET_MAX_TOKENS, gen)),
         raised  |-> gen.raised]

\* Compiler._compile_action_statement
compile_action_statement(st, node, idx, prompt_tokens, reply) ==
    generate_snippet(st, idx, generate_action_template(node.prompt),
                     prompt_tokens, reply)

\* _compile_variable_declaration raising the unknown-type error instead of recording it
compile_variable_declaration_raising(st, node, idx, prompt_tokens, reply) ==
    LET type == IF node.type \notin {None, ""}
                THEN resolve_type(st.custom_types, node.type)
                ELSE None
    IN  IF node.type \notin {None, ""} /\ type = None
        THEN [program |-> st.program,
              errors  |-> Append(st.errors, CompilerError("UnknownType", node.type, <<>>, idx)),
              calls   |-> st.calls,
              raised  |-> "CompilerError"]
        ELSE generate_snippet(st, idx,
                 generate_variable_decl_template(node.variable_name, type, node.prompt),
                 prompt_tokens, reply)

\* Compiler._compile_variable_declaration
compile_variable_declaration(st, node, idx, prompt_tokens, reply) ==
    LET type == IF node.type \notin {None, ""}
                THEN resolve_type(st.custom_types, node.type)
                ELSE None
    IN  IF node.type \notin {None, ""} /\ type = None
        THEN [program |-> st.program,
              errors  |-> Append(st.errors, CompilerError("UnknownType", node.type, <<>>, idx)),
              calls   |-> st.calls,
              raised  |-> None]
        ELSE generate_snippet(st, idx,
                 generate_variable_decl_template(node.variable_name, type, node.prompt),
                 prompt_tokens, reply)

\* the fields of the compiler the handlers work on
CompilerState ==
    [header |-> header, program |-> program, errors |-> errors, warnings |-> warnings,
     used_modules |-> used_modules, custom_types |-> custom_types, calls |-> calls]

(***************************************************************************)
(* The inputs: modules to compile and what the environment answers.        *)
(***************************************************************************)
UsingDirectiveNode(module_name) ==
    [kind |-> "UsingDirectiveNode", module_name |-> module_name, variable_name |-> <<>>,
     type |-> None, prompt |-> <<>>]

ActionStatementNode(prompt) ==
    [kind |-> "ActionStatementNode", module_name |-> "", variable_name |-> <<>>,
     type |-> None, prompt |-> prompt]

VariableDeclarationNode(name, type, prompt) ==
    [kind |-> "VariableDeclarationNode", module_name |-> "", variable_name |-> name,
     type |-> type, prompt |-> prompt]

\* "hi": mentions no module
PromptPlain == <<"h", "i">>

\* "Rand json": a keyword of random in another case, and the keyword of json
PromptRandJson == <<"R", "a", "n", "d", " ", "j", "s", "o", "n">>

\* "brand matrix 2d array": rand only inside a longer word, two keywords of linalg,
\* and a keyword of the default module array
PromptBrandMatrix == <<"b", "r", "a", "n", "d", " ", "m", "a", "t", "r", "i", "x", " ",
                       "2", "d", " ", "a", "r", "r", "a", "y">>

\* the statements modules are made of
StatementPool ==
    {UsingDirectiveNode(m) : m \in {"math", "fs", "random", "linalg", "bogus"}}
    \cup {ActionStatementNode(p) : p \in {PromptRandJson, PromptBrandMatrix}}
    \cup {VariableDeclarationNode(<<"x">>, None, PromptPlain),
          VariableDeclarationNode(<<"y">>, "int", PromptPlain),
          VariableDeclarationNode(<<"m">>, "matrix", PromptBrandMatrix),
          VariableDeclarationNode(<<"z">>, "bogus", PromptRandJson)}

\* the modules that are compiled: every sequence of at most MaxStmts statements
Modules == UNION {[1..n -> StatementPool] : n \in 0..MaxStmts}

\* what the service can answer: text, text that starts with a newline, an error
\* object, or nothing (the transport raises)
Replies ==
    {[kind |-> "ok", text |-> <<"1">>],
     [kind |-> "ok", text |-> <<NL, "2">>],
     [kind |-> "error", text |-> <<>>],
     [kind |-> "exception", text |-> <<>>]}

\* token counts of the contextualized prompt, as the tokenizer reports them: one
\* that leaves fewer tokens than the statement cap, one above the model's ceiling
PromptTokenCounts == {3900, 4001}

\* what the environment decides for one call of generate_code: the token count of
\* the prompt and, when a request is sent, the answer of the service
ServiceOutcomes ==
    {[prompt_tokens |-> n, reply |-> r] :
        n \in {k \in PromptTokenCounts : k <= DAVINCI_MAX_TOKENS}, r \in Replies}
    \cup {[prompt_tokens |-> n, reply |-> NoReply] :
        n \in {k \in PromptTokenCounts : k > DAVINCI_MAX_TOKENS}}

\* a configuration the Compiler can be constructed with: python3, a key, the
\* default temperature 0.05 (in ten-thousandths)
DefaultConfig ==
    [target_language_name |-> <<"p", "y", "t", "h", "o", "n", "3">>,
     openai_key |-> <<"s", "k">>,
     temperature |-> [nan |-> FALSE, value |-> 500]]

(***************************************************************************)
(* The front end at rest: nothing loaded, parsed, truncated or run.        *)
(***************************************************************************)
\* no CodexSource has been constructed
NoSource == [loaded |-> FALSE, content |-> <<>>, lines |-> <<>>]

\* no exception has been raised
NoException == [type |-> None, line_no |-> 0, message |-> None, about |-> <<>>]

\* no prompt is being truncated
NoPrompt ==
    [kind |-> None, prompt |-> <<>>, prefix |-> <<>>, suffix |-> <<>>,
     min_prefix_tokens |-> 0, min_suffix_tokens |-> 0]

\* Codegen._context when set_context has not been called: None
NoContext == [set |-> FALSE, required_context |-> <<>>, helpful_context |-> <<>>]

\* no truncation has been asked for
NoTruncation ==
    [original |-> NoPrompt, now |-> NoPrompt, max_tokens |-> 0, done |-> 0,
     before_last |-> NoPrompt, raised |-> None, context |-> NoContext]

\* Expression.__init__: no name, and the fields of the subclasses empty
Expression ==
    [class |-> None, name |-> None, literal |-> <<>>, case_sensitive |-> TRUE,
     regex |-> None, components |-> <<>>, expressions |-> <<>>, min_count |-> 0]

\* no command line
NoArgs ==
    [env |-> "none", target |-> <<>>, temperature |-> [nan |-> FALSE, value |-> 0],
     output |-> NoneText, filename |-> <<>>, directories |-> {}, text |-> <<>>,
     second_text |-> <<>>, expression |-> Expression,
     written |-> [statement |-> None, names |-> <<>>, text |-> <<>>]]

\* nothing has been written to the output path
NoOutput == [path |-> NoneText, text |-> NoneText]

FrontIdle ==
    /\ source = NoSource
    /\ current_line_idx = 0
    /\ parsing = "idle"
    /\ children = <<>>
    /\ exception = NoException
    /\ truncation = NoTruncation
    /\ cli_pc = "idle"
    /\ args = NoArgs
    /\ stderr = <<>>
    /\ output_file = NoOutput

(***************************************************************************)
(* compile(): one action per step of its two loops.                        *)
(***************************************************************************)
Init ==
    /\ module \in Modules
    /\ status = "constructed"
    /\ pc = 1
    /\ header = <<>>
    /\ program = <<>>
    /\ errors = <<>>
    /\ warnings = <<>>
    /\ used_modules = {}
    /\ custom_types = {}
    /\ calls = <<>>
    /\ config = DefaultConfig
    /\ validation = "ok"
    /\ FrontIdle

\* compile(), first loop: include the modules that are included by default
IncludeDefaultModules ==
    /\ status = "constructed"
    /\ LET r == include_default_modules(
                    [header |-> header, used_modules |-> used_modules,
                     custom_types |-> custom_types, raised |-> FALSE], 1)
       IN  /\ header' = r.header
           /\ used_modules' = r.used_modules
           /\ custom_types' = r.custom_types
           /\ status' = IF r.raised THEN "raised" ELSE "running"
    /\ UNCHANGED <<module, pc, program, errors, warnings, calls, config, validation>>
    /\ UNCHANGED front_vars

\* compile(), second loop, at a using directive
CompileUsingDirective ==
    /\ status = "running"
    /\ pc <= Len(module)
    /\ module[pc].kind = "UsingDirectiveNode"
    /\ LET r == compile_using_directive(CompilerState, module[pc], pc)
       IN  /\ header' = r.header
           /\ used_modules' = r.used_modules
           /\ custom_types' = r.custom_types
           /\ errors' = r.errors
           /\ warnings' = r.warnings
           /\ status' = IF r.raised THEN "raised" ELSE "running"
           /\ pc' = IF r.raised THEN pc ELSE pc + 1
    /\ UNCHANGED <<module, program, calls, config, validation>>
    /\ UNCHANGED front_vars

\* compile(), second loop, at an action statement
CompileActionStatement ==
    /\ status = "running"
    /\ pc <= Len(module)
    /\ module[pc].kind = "ActionStatementNode"
    /\ \E env \in ServiceOutcomes :
        LET w == check_prompt_for_unincluded_modules(warnings, used_modules, pc,
                                                     module[pc].prompt)
            r == compile_action_statement(CompilerState, module[pc], pc,
                                          env.prompt_tokens, env.reply)
        IN  /\ warnings' = w
            /\ program' = r.program
            /\ calls' = r.calls
            /\ status' = IF r.raised # None THEN "raised" ELSE "running"
            /\ pc' = IF r.raised # None THEN pc ELSE pc + 1
    /\ UNCHANGED <<module, header, errors, used_modules, custom_types, config, validation>>
    /\ UNCHANGED front_vars

\* compile(), second loop, at a variable declaration
CompileVariableDeclaration ==
    /\ status = "running"
    /\ pc <= Len(module)
    /\ module[pc].kind = "VariableDeclarationNode"
    /\ \E env \in ServiceOutcomes :
        LET w == check_prompt_for_unincluded_modules(warnings, used_modules, pc,
                                                     module[pc].prompt)
            r == compile_variable_declaration(CompilerState, module[pc], pc,
                                              env.prompt_tokens, env.reply)
        IN  /\ warnings' = w
            /\ program' = r.program
            /\ errors' = r.errors
            /\ calls' = r.calls
            /\ status' = IF r.raised # None THEN "raised" ELSE "running"
            /\ pc' = IF r.raised # None THEN pc ELSE pc + 1
    /\ UNCHANGED <<module, header, used_modules, custom_types, config, validation>>
    /\ UNCHANGED front_vars

\* compile() returns: the second loop has gone through every statement
ReturnFromCompile ==
    /\ status = "running"
    /\ pc > Len(module)
    /\ status' = "returned"
    /\ UNCHANGED <<module, pc, header, program, errors, warnings, used_modules,
                   custom_types, calls, config, validation>>
    /\ UNCHANGED front_vars

Next ==
    \/ IncludeDefaultModules
    \/ CompileUsingDirective
    \/ CompileActionStatement
    \/ CompileVariableDeclaration
    \/ ReturnFromCompile

Spec == Init /\ [][Next]_vars

(***************************************************************************)
(* generate_code on its own: calls with token counts and caps around the   *)
(* ceiling of 4000 tokens.                                                 *)
(***************************************************************************)
\* most calls of generate_code in one behaviour
MaxCalls == 1

\* token counts of the prompt: none, few, around the point where the cap of 150 stops
\* fitting, around the ceiling, and far above it
GenTokenCounts == {0, 1, 3849, 3850, 3851, 3999, 4000, 4001, 4150, 8000}

\* requested caps: 0 (no cap), small, the cap the compiler asks for, and caps at and
\* above the ceiling
GenCaps == {0, 1, 150, 151, 4000, 4001}

\* one call of OpenAI.generate_code
GenerateCode ==
    /\ Len(calls) < MaxCalls
    /\ \E prompt_tokens \in GenTokenCounts, target_max_tokens \in GenCaps, reply \in Replies :
          calls' = Append(calls,
                      CallRecord(0, <<>>, <<>>, prompt_tokens, target_max_tokens,
                                 generate_code(prompt_tokens, target_max_tokens, reply)))
    /\ UNCHANGED <<module, status, pc, header, program, errors, warnings, used_modules,
                   custom_types, config, validation>>
    /\ UNCHANGED front_vars

InitGen ==
    /\ module = <<>>
    /\ status = "constructed"
    /\ pc = 1
    /\ header = <<>>
    /\ program = <<>>
    /\ errors = <<>>
    /\ warnings = <<>>
    /\ used_modules = {}
    /\ custom_types = {}
    /\ calls = <<>>
    /\ config = DefaultConfig
    /\ validation = "ok"
    /\ FrontIdle

NextGen == GenerateCode

SpecGen == InitGen /\ [][NextGen]_vars

(***************************************************************************)
(* Configuration validation (codex/compiler/config.py).                    *)
(*                                                                         *)
(* A temperature is a Python float: either not-a-number, or a number, kept *)
(* here in ten-thousandths (10000 is 1.0).                                 *)
(***************************************************************************)
\* the float a / 10000
Float(a) == [nan |-> FALSE, value |-> a]

\* the float nan
NaN == [nan |-> TRUE, value |-> 0]

\* a < b on floats: False whenever either side is nan
FloatLess(a, b) == ~a.nan /\ ~b.nan /\ a.value < b.value

\* a > b on floats: False whenever either side is nan
FloatGreater(a, b) == ~a.nan /\ ~b.nan /\ a.value > b.value

\* the names of the registered language bindings, in registry order
LANGUAGE_REGISTRY == << <<"p", "y", "t", "h", "o", "n", "3">> >>

\* is_language_supported
is_language_supported(language_name) ==
    \E i \in DOMAIN LANGUAGE_REGISTRY : Lower(LANGUAGE_REGISTRY[i]) = Lower(language_name)

\* validate_config: "ok" when it returns, else the CompilerConfigError it raises
validate_config(cfg) ==
    IF ~is_language_supported(cfg.target_language_name) THEN "LanguageNotSupported"
    ELSE IF cfg.openai_key = <<>> THEN "NoApiKey"
    ELSE IF FloatLess(cfg.temperature, Float(0)) \/ FloatGreater(cfg.temperature, Float(10000))
         THEN "TemperatureOutOfRange"
         ELSE "ok"

\* target names: the registered name in three spellings, an unregistered one, none
ConfigLanguages ==
    {<<"p", "y", "t", "h", "o", "n", "3">>, <<"P", "y", "t", "h", "o", "n", "3">>,
     <<"P", "Y", "T", "H", "O", "N", "3">>,
     <<"t", "y", "p", "e", "s", "c", "r", "i", "p", "t">>, <<>>}

\* credentials: none and some
ConfigKeys == {<<>>, <<"s", "k">>}

\* temperatures: -1.0, -0.0001, 0.0, 0.05, 1.0, 1.0001, 2.0 and nan
ConfigTemperatures ==
    {Float(a) : a \in {0 - 10000, 0 - 1, 0, 500, 10000, 10001, 20000}} \cup {NaN}

InitConfig ==
    /\ module = <<>>
    /\ status = "constructed"
    /\ pc = 1
    /\ header = <<>>
    /\ program = <<>>
    /\ errors = <<>>
    /\ warnings = <<>>
    /\ used_modules = {}
    /\ custom_types = {}
    /\ calls = <<>>
    /\ config \in [target_language_name : ConfigLanguages, openai_key : ConfigKeys,
                   temperature : ConfigTemperatures]
    /\ validation = "pending"
    /\ FrontIdle

\* validate_config(config) is called
ValidateConfig ==
    /\ validation = "pending"
    /\ validation' = validate_config(config)
    /\ UNCHANGED <<module, status, pc, header, program, errors, warnings, used_modules,
                   custom_types, calls, config>>
    /\ UNCHANGED front_vars

NextConfig == ValidateConfig

SpecConfig == InitConfig /\ [][NextConfig]_vars

(***************************************************************************)
(* What the source text of the module says, read off the statements alone. *)
(***************************************************************************)
\* the catalog of standard modules
Catalog == Range(StandardLibrary)

\* the names of the default-included modules
DefaultNames == {m.name : m \in {c \in Catalog : c.include_by_default}}

\* the names of the modules a using directive can include for this target
IncludableNames ==
    {m.name : m \in {c \in Catalog : ~c.include_by_default}} \ stdlib_binding_unsupported

\* statement i is a using directive naming name
IsUsingOf(i, name) ==
    module[i].kind = "UsingDirectiveNode" /\ module[i].module_name = name

\* statement i is the first using directive of an includable module
IsFirstUsing(i) ==
    /\ module[i].kind = "UsingDirectiveNode"
    /\ module[i].module_name \in IncludableNames
    /\ \A j \in 1..(i - 1) : ~IsUsingOf(j, module[i].module_name)

\* the modules included when statement i is reached
IncludedBefore(i) ==
    DefaultNames \cup {module[j].module_name : j \in {k \in 1..(i - 1) : IsFirstUsing(k)}}

\* the text a module contributes to the header: its import line, then its polyfill
HeaderTextOf(name) ==
    IF name \in DOMAIN stdlib_binding_modules
    THEN LET b == stdlib_binding_modules[name]
         IN  (IF b.analogous_module # NoneText
              THEN <<"i", "m", "p", "o", "r", "t", " ">> \o b.analogous_module \o <<NL>>
              ELSE <<>>)
             \o (IF b.polyfill # NoneText THEN b.polyfill \o <<NL>> ELSE <<>>)
    ELSE <<>>

\* the types a module contributes
TypesOf(name) == UNION {Range(m.module_types) : m \in {c \in Catalog : c.name = name}}

\* how often pat occurs in text
Occurrences(text, pat) == Cardinality({p \in 1..Len(text) : StartsWithAt(text, pat, p)})

\* the statements the loop of compile() has gone through
Processed == 1..(pc - 1)

\* the diagnostics of a list that are recorded for statement i
DiagnosticsAt(list, i) == {k \in DOMAIN list : list[k].node = i}

(***************************************************************************)
(* C1: a supported, non-default module is included at most once.           *)
(***************************************************************************)
\* in every state: M is marked included exactly when a using directive of M has been
\* processed, its header text is then in the header exactly once, and exactly the later
\* using directives of M have one "already imported" warning each and no error
C1_Once ==
    status # "constructed" =>
        \A name \in IncludableNames :
            LET usings == {i \in Processed : IsUsingOf(i, name)}
                first  == CHOOSE i \in usings : \A j \in usings : i <= j
            IN  /\ (name \in used_modules) <=> (usings # {})
                /\ HeaderTextOf(name) # <<>> =>
                      Occurrences(header, HeaderTextOf(name)) = IF usings = {} THEN 0 ELSE 1
                /\ TypesOf(name) \subseteq custom_types <=> (usings # {} \/ TypesOf(name) = {})
                /\ \A i \in usings :
                      /\ DiagnosticsAt(errors, i) = {}
                      /\ Cardinality(DiagnosticsAt(warnings, i)) = IF i = first THEN 0 ELSE 1
                      /\ \A k \in DiagnosticsAt(warnings, i) :
                            warnings[k].message = "AlreadyImported" /\ warnings[k].about = name

\* in every step at a using directive of such a module M: the first one appends M's
\* header text and marks M; a later one changes nothing but the warnings
C1_Step ==
    (status = "running" /\ pc <= Len(module) /\ module[pc].kind = "UsingDirectiveNode"
        /\ module[pc].module_name \in IncludableNames)
    => LET name == module[pc].module_name
       IN  IF name \notin used_modules
           THEN /\ header' = header \o HeaderTextOf(name)
                /\ used_modules' = used_modules \cup {name}
                /\ custom_types' = custom_types \cup TypesOf(name)
                /\ errors' = errors
                /\ warnings' = warnings
           ELSE /\ header' = header
                /\ used_modules' = used_modules
                /\ custom_types' = custom_types
                /\ errors' = errors
                /\ warnings' = Append(warnings,
                                  CompilerError("AlreadyImported", name, <<>>, pc))

\* C1: within one compile() run a supported, non-default module M is included at most
\* once: the first `using M` appends M's import/polyfill text to the header and marks
\* M included; every later `using M` records exactly one "already imported" warning,
\* no error, and leaves header, included set and type registry unchanged; the header
\* holds M's import exactly once.
C1_IncludedAtMostOnce == []C1_Once /\ [][C1_Step]_vars

\* C1 witness: a module has been named by two processed using directives, and the
\* second one got its warning
C1_Witness ==
    \E i, j \in Processed :
        /\ i < j
        /\ module[i].module_name \in IncludableNames
        /\ HeaderTextOf(module[i].module_name) # <<>>
        /\ IsUsingOf(i, module[i].module_name)
        /\ IsUsingOf(j, module[i].module_name)
        /\ DiagnosticsAt(warnings, j) # {}

(***************************************************************************)
(* C2: an unknown or default-included module changes only the diagnostics. *)
(***************************************************************************)
\* C2: a step at a `using` directive naming an unknown module, or a module included by
\* default, leaves header, program, included set and type registry unchanged and
\* records exactly one diagnostic: an error and no warning for an unknown name, a
\* warning and no error for a default-included module.
C2_OnlyDiagnostics ==
    [][(status = "running" /\ pc <= Len(module) /\ module[pc].kind = "UsingDirectiveNode"
          /\ module[pc].module_name \notin IncludableNames \cup stdlib_binding_unsupported)
       => /\ header' = header
          /\ program' = program
          /\ used_modules' = used_modules
          /\ custom_types' = custom_types
          /\ IF module[pc].module_name \in DefaultNames
             THEN /\ errors' = errors
                  /\ warnings' = Append(warnings, CompilerError("IncludedByDefault",
                                            module[pc].module_name, <<>>, pc))
             ELSE /\ warnings' = warnings
                  /\ errors' = Append(errors, CompilerError("UnknownModule",
                                            module[pc].module_name, <<>>, pc))]_vars

\* C2 witness: an unknown module and a default-included module have both been named by
\* processed using directives, and each has its diagnostic
C2_Witness ==
    \E i, j \in Processed :
        /\ module[i].kind = "UsingDirectiveNode"
        /\ module[j].kind = "UsingDirectiveNode"
        /\ module[i].module_name \in DefaultNames
        /\ module[j].module_name \notin {m.name : m \in Catalog}
        /\ DiagnosticsAt(warnings, i) # {}
        /\ DiagnosticsAt(errors, j) # {}

(***************************************************************************)
(* What each statement is to contribute, read off the statements alone.    *)
(***************************************************************************)
\* statement i carries a prompt
IsPrompted(i) == module[i].kind \in {"ActionStatementNode", "VariableDeclarationNode"}

\* the declared type of declaration i is absent, a base type, or a type of a module
\* included before statement i
Resolvable(i) ==
    \/ module[i].type \in {None, ""}
    \/ module[i].type \in Range(BASE_TYPES)
    \/ module[i].type \in UNION {TypesOf(name) : name \in IncludedBefore(i)}

\* statement i is one that produces code
ProducesCode(i) ==
    \/ module[i].kind = "ActionStatementNode"
    \/ module[i].kind = "VariableDeclarationNode" /\ Resolvable(i)

\* the calls of generate_code made for statement i
CallsFor(i) == {k \in DOMAIN calls : calls[k].stmt = i}

\* the text statement i renders to when the service generated text for it: the prompt
\* as a comment line, then the generated text (after `name = ` for a declaration),
\* closed by the newline of the template and the newline of writeln
RenderedText(i, text) ==
    <<"#", " ">> \o module[i].prompt \o <<NL>>
    \o (IF module[i].kind = "VariableDeclarationNode"
        THEN module[i].variable_name \o <<" ", "=", " ">>
        ELSE <<>>)
    \o text \o <<NL, NL>>

\* the generated text the service returned for statement i
ReplyTextFor(i) == calls[CHOOSE k \in CallsFor(i) : TRUE].reply.text

RECURSIVE ExpectedProgram(_)
\* the rendered text of the code-producing statements among the first n, in source order
ExpectedProgram(n) ==
    IF n = 0 THEN <<>>
    ELSE ExpectedProgram(n - 1)
         \o (IF ProducesCode(n) THEN RenderedText(n, ReplyTextFor(n)) ELSE <<>>)

RECURSIVE DefaultHeader(_)
\* the header text of the default-included modules among the first n of the registry
DefaultHeader(n) ==
    IF n = 0 THEN <<>>
    ELSE DefaultHeader(n - 1)
         \o (IF StandardLibrary[n].include_by_default
             THEN HeaderTextOf(StandardLibrary[n].name)
             ELSE <<>>)

RECURSIVE ExpectedHeader(_)
\* the header after the first n statements: the defaults in registry order, then the
\* modules of the first using directives in source order
ExpectedHeader(n) ==
    IF n = 0 THEN DefaultHeader(Len(StandardLibrary))
    ELSE ExpectedHeader(n - 1)
         \o (IF IsFirstUsing(n) THEN HeaderTextOf(module[n].module_name) ELSE <<>>)

(***************************************************************************)
(* C3: order of the program buffer and of the header buffer.               *)
(***************************************************************************)
\* C3: after compile() has returned, the program buffer is the concatenation, in source
\* order, of the rendered text of exactly the statements that produced code, and the
\* header buffer is the header text of the default-included modules in registry order
\* followed by that of the explicitly included modules in the source order of their
\* `using` directives.
C3_BuffersInOrder ==
    status = "returned" =>
        /\ \A i \in 1..Len(module) : ProducesCode(i) => CallsFor(i) # {}
        /\ program = ExpectedProgram(Len(module))
        /\ header = ExpectedHeader(Len(module))

\* C3 witness: compile() has returned from a module in which two modules with header
\* text were included one after the other and a statement produced code, or two
\* statements produced code after an inclusion
C3_Witness ==
    /\ status = "returned"
    /\ Len(module) = MaxStmts
    /\ \E i \in 1..Len(module) : IsFirstUsing(i) /\ HeaderTextOf(module[i].module_name) # <<>>
    /\ \E i, j \in 1..Len(module) :
          /\ i < j
          /\ ProducesCode(j)
          /\ ProducesCode(i) \/ (IsFirstUsing(i) /\ HeaderTextOf(module[i].module_name) # <<>>)
    /\ program # <<>>
    /\ Len(header) > Len(DefaultHeader(Len(StandardLibrary)))

(***************************************************************************)
(* C4: the keyword scan.                                                   *)
(***************************************************************************)
\* word occurs in text as a whole word, letter case ignored: the characters next to
\* the occurrence, if any, are not word characters
ContainsWholeWord(text, word) ==
    \E p \in 1..(Len(text) - Len(word) + 1) :
        /\ \A k \in 1..Len(word) : LowerChar(text[p + k - 1]) = LowerChar(word[k])
        /\ p = 1 \/ text[p - 1] \notin WordChars
        /\ p + Len(word) > Len(text) \/ text[p + Len(word)] \notin WordChars

\* the prompt text mentions a keyword of the module
Mentions(text, name) ==
    \E m \in Catalog : m.name = name /\ \E k \in DOMAIN m.keywords :
        ContainsWholeWord(text, m.keywords[k])

\* the keyword scan has run for statement i
Scanned(i) == IsPrompted(i) /\ (i < pc \/ (i = pc /\ status = "raised"))

\* the warnings of the keyword scan recorded for statement i about a module
ScanWarnings(i, name) ==
    {k \in DiagnosticsAt(warnings, i) :
        warnings[k].message = "PromptMentions" /\ warnings[k].about = name}

\* C4: for every prompted statement and every standard module that is neither included
\* by default nor included when the statement is reached, the scan records exactly one
\* warning for the module if the prompt text contains one of its keywords as a whole
\* word (case-insensitive) and none otherwise; it records none for a module an earlier
\* `using` directive included.
C4_KeywordScan ==
    \A i \in 1..Len(module) : Scanned(i) =>
        \A name \in {m.name : m \in Catalog} :
            Cardinality(ScanWarnings(i, name)) =
                IF name \notin IncludedBefore(i) /\ Mentions(module[i].prompt, name)
                THEN 1 ELSE 0

\* C4 witness: the same prompt has been scanned before and after a `using` directive of
\* a module it mentions: warned about the first time, not the second
C4_Witness ==
    \E i, j \in 1..Len(module) :
        /\ i < j
        /\ Scanned(i) /\ Scanned(j)
        /\ module[i].prompt = module[j].prompt
        /\ \E name \in IncludableNames :
              /\ ScanWarnings(i, name) # {}
              /\ ScanWarnings(j, name) = {}
              /\ \E u \in (i + 1)..(j - 1) : IsUsingOf(u, name)

(***************************************************************************)
(* C5: unknown declared types.                                             *)
(***************************************************************************)
\* C5: a step at a variable declaration whose declared type resolves neither to a base
\* type nor to a type registered by an included module records exactly one "unknown
\* type" error, makes no call to the completion client and appends nothing to the
\* program buffer; a declaration with no declared type, or with a type that resolves,
\* records no error, is sent to the completion client once and, when text comes back,
\* its rendered text is appended.
C5_UnknownType ==
    [][(status = "running" /\ pc <= Len(module)
          /\ module[pc].kind = "VariableDeclarationNode")
       => IF ~Resolvable(pc)
          THEN /\ errors' = Append(errors,
                               CompilerError("UnknownType", module[pc].type, <<>>, pc))
               /\ calls' = calls
               /\ program' = program
          ELSE /\ errors' = errors
               /\ Len(calls') = Len(calls) + 1
               /\ calls'[Len(calls')].stmt = pc
               /\ calls'[Len(calls')].reply.kind = "ok"
                     => program' = program \o
                            RenderedText(pc, calls'[Len(calls')].reply.text)]_vars

\* C5 witness: a declaration of type matrix was rejected before `using linalg`, and a
\* declaration of the same type was compiled and appended after it
C5_Witness ==
    \E i, j \in Processed :
        /\ i < j
        /\ module[i].kind = "VariableDeclarationNode"
        /\ module[j].kind = "VariableDeclarationNode"
        /\ module[i].type = module[j].type
        /\ ~Resolvable(i) /\ Resolvable(j)
        /\ DiagnosticsAt(errors, i) # {}
        /\ DiagnosticsAt(errors, j) = {}
        /\ CallsFor(j) # {}
        /\ program # <<>>

(***************************************************************************)
(* C6: compile errors do not stop the compilation.                         *)
(***************************************************************************)
\* the compile error statement i is to record, if any
ExpectedErrorsAt(i) ==
    IF module[i].kind = "UsingDirectiveNode"
    THEN IF module[i].module_name \notin {m.name : m \in Catalog}
         THEN <<CompilerError("UnknownModule", module[i].module_name, <<>>, i)>>
         ELSE IF module[i].module_name \in stdlib_binding_unsupported \ DefaultNames
              THEN <<CompilerError("NotSupported", module[i].module_name, <<>>, i)>>
              ELSE <<>>
    ELSE IF module[i].kind = "VariableDeclarationNode" /\ ~Resolvable(i)
         THEN <<CompilerError("UnknownType", module[i].type, <<>>, i)>>
         ELSE <<>>

RECURSIVE ExpectedErrors(_)
\* the compile errors of the first n statements, in source order
ExpectedErrors(n) ==
    IF n = 0 THEN <<>> ELSE ExpectedErrors(n - 1) \o ExpectedErrorsAt(n)

\* a step that records a compile error leaves compile() running at the next statement
C6_Step == Len(errors') > Len(errors) => status' = "running" /\ pc' = pc + 1

\* when compile() has returned, it has gone through every statement: the errors of all
\* of them are there, and every code-producing statement has had its call
C6_Final ==
    status = "returned" =>
        /\ pc = Len(module) + 1
        /\ errors = ExpectedErrors(Len(module))
        /\ \A i \in 1..Len(module) :
              /\ ProducesCode(i) => CallsFor(i) # {}
              /\ IsPrompted(i) => \A name \in IncludableNames :
                    (name \notin IncludedBefore(i) /\ Mentions(module[i].prompt, name))
                        => ScanWarnings(i, name) # {}

\* C6: a compile error recorded for one statement (unknown module, unsupported module,
\* unknown type) never stops compilation: compile() goes on with the next statement,
\* and when it returns every statement has contributed its code and diagnostics.
C6_ErrorsDoNotStop == []C6_Final /\ [][C6_Step]_vars

\* C6 witness: compile() has returned, an error was recorded for a statement, and a
\* later statement produced code
C6_Witness ==
    /\ status = "returned"
    /\ \E i, j \in 1..Len(module) :
          /\ i < j
          /\ DiagnosticsAt(errors, i) # {}
          /\ ProducesCode(j)
          /\ CallsFor(j) # {}
    /\ program # <<>>

(***************************************************************************)
(* C7: a failure of the completion client aborts compile().                *)
(***************************************************************************)
\* the call failed: the prompt was above the token ceiling, or the service answered
\* with an error, or not at all
Failed(call) ==
    \/ call.prompt_tokens > DAVINCI_MAX_TOKENS
    \/ call.reply.kind \in {"error", "exception"}

\* C7: if the completion service reports an error, or the prompt is rejected as too
\* large, while statement k is compiled, compile() raises without a retry: the failed
\* call is the last call and the only one for statement k, nothing is appended to the
\* program buffer for statement k, and no statement after k is processed.
C7_FailureAborts ==
    \A c \in DOMAIN calls : Failed(calls[c]) =>
        /\ c = Len(calls)
        /\ status = "raised"
        /\ pc = calls[c].stmt
        /\ CallsFor(calls[c].stmt) = {c}
        /\ program = calls[c].helpful_context
        /\ calls[c].prompt_tokens > DAVINCI_MAX_TOKENS => ~calls[c].sent
        /\ \A k \in DOMAIN errors : errors[k].node <= pc
        /\ \A k \in DOMAIN warnings : warnings[k].node <= pc

\* C7 witness: the service answered a statement with an error after an earlier
\* statement was compiled, and a statement after the failed one is left unprocessed
C7_Witness ==
    /\ status = "raised"
    /\ pc < Len(module)
    /\ Len(calls) >= 2
    /\ calls[Len(calls)].reply.kind = "error"
    /\ IsPrompted(pc + 1)

(***************************************************************************)
(* C8: one completion request per compiled statement, in source order.     *)
(***************************************************************************)
\* C8: exactly one completion request is issued for each action statement and each
\* variable declaration passing type resolution that compile() gets through, and none
\* for `using` directives or rejected declarations; the calls are made in source
\* order, and the call for a statement is made with the context set to the header and
\* to the rendered text of every earlier code-producing statement.
C8_OneRequestPerStatement ==
    /\ \A c, d \in DOMAIN calls : c < d => calls[c].stmt < calls[d].stmt
    /\ \A c \in DOMAIN calls :
          /\ calls[c].stmt \in 1..Len(module)
          /\ calls[c].stmt <= pc
          /\ ProducesCode(calls[c].stmt)
    /\ \A i \in Processed :
          IF ProducesCode(i)
          THEN /\ Cardinality(CallsFor(i)) = 1
               /\ \A c \in CallsFor(i) : calls[c].sent /\ calls[c].reply.kind = "ok"
          ELSE CallsFor(i) = {}
    /\ \A c \in DOMAIN calls :
          /\ calls[c].helpful_context = ExpectedProgram(calls[c].stmt - 1)
          /\ calls[c].required_context = ExpectedHeader(calls[c].stmt - 1)

\* C8 witness: two requests have been issued, the second with the rendered text of the
\* first statement as its context, around a statement that got no request
C8_Witness ==
    /\ Len(calls) = 2
    /\ calls[2].sent
    /\ calls[2].stmt > calls[1].stmt + 1
    /\ calls[2].helpful_context # <<>>
    /\ calls[2].helpful_context = RenderedText(calls[1].stmt, calls[1].reply.text)

(***************************************************************************)
(* C9: token accounting of generate_code.                                  *)
(***************************************************************************)
\* C9: for every prompt token count n and requested cap c (both counts of tokens, so
\* not negative), generate_code raises and sends no request when n exceeds 4000;
\* otherwise it sends one request whose max_tokens is 4000 - n when c is 0 and the
\* minimum of 4000 - n and c otherwise, so that n + max_tokens never exceeds 4000 and
\* max_tokens is never negative.
C9_TokenAccounting ==
    \A k \in DOMAIN calls :
        LET n == calls[k].prompt_tokens
            c == calls[k].target_max_tokens
        IN  IF n > 4000
            THEN ~calls[k].sent /\ calls[k].raised = "ValueError"
            ELSE /\ calls[k].sent
                 /\ calls[k].raised # "ValueError"
                 /\ c = 0 => calls[k].max_tokens = 4000 - n
                 /\ c # 0 => /\ calls[k].max_tokens <= 4000 - n
                             /\ calls[k].max_tokens <= c
                             /\ calls[k].max_tokens \in {4000 - n, c}
                 /\ n + calls[k].max_tokens <= 4000
                 /\ calls[k].max_tokens >= 0

\* C9 witness: a call with a prompt of exactly 4000 tokens and no cap was sent with
\* max_tokens 0
C9_Witness ==
    \E k \in DOMAIN calls :
        /\ calls[k].prompt_tokens = 4000
        /\ calls[k].target_max_tokens = 0
        /\ calls[k].sent
        /\ calls[k].max_tokens = 0

(***************************************************************************)
(* C10: configuration validation.                                          *)
(***************************************************************************)
\* the temperature lies in the closed interval [0.0, 1.0]
InUnitInterval(t) == ~t.nan /\ 0 <= t.value /\ t.value <= 10000

\* the target name is the name of a registered binding, letter case ignored
NamesRegisteredLanguage(name) ==
    \E i \in DOMAIN LANGUAGE_REGISTRY :
        /\ Len(name) = Len(LANGUAGE_REGISTRY[i])
        /\ \A k \in DOMAIN name : LowerChar(name[k]) = LowerChar(LANGUAGE_REGISTRY[i][k])

\* C10: validate_config succeeds exactly when the target language name resolves in the
\* binding registry (case-insensitively), the credential is non-empty and the
\* temperature lies in [0.0, 1.0]; otherwise it raises the configuration error of the
\* first failing rule in the order language, credential, temperature.
C10_ValidateConfig ==
    validation # "pending" =>
        validation =
            IF ~NamesRegisteredLanguage(config.target_language_name) THEN "LanguageNotSupported"
            ELSE IF config.openai_key = <<>> THEN "NoApiKey"
            ELSE IF ~InUnitInterval(config.temperature) THEN "TemperatureOutOfRange"
            ELSE "ok"

(***************************************************************************)
(* The source text (codex/parser/source.py).                               *)
(***************************************************************************)
CR == "\r"

TAB == "\t"

\* the first n characters of a text, and the text without them
Take(text, n) == SubSeq(text, 1, n)

Drop(text, n) == SubSeq(text, n + 1, Len(text))

RECURSIVE SplitFrom(_, _, _, _)
\* str.split(sep) from position p on, with the piece begun before p
SplitFrom(text, sep, p, piece) ==
    IF p > Len(text) THEN <<piece>>
    ELSE IF text[p] = sep THEN <<piece>> \o SplitFrom(text, sep, p + 1, <<>>)
    ELSE SplitFrom(text, sep, p + 1, Append(piece, text[p]))

\* str.split(sep) for a one-character separator
Split(text, sep) == SplitFrom(text, sep, 1, <<>>)

\* list[i] in Python: a negative index counts from the end
ListItem(list, i) == IF i >= 0 THEN list[i + 1] ELSE list[Len(list) + i + 1]

\* CodexSource.__init__: line endings replaced, then content and lines stored
CodexSource(from_string) ==
    LET content == Replace(from_string, <<CR, NL>>, <<NL>>)
    IN  [loaded |-> TRUE, content |-> content, lines |-> Split(content, NL)]

get_line_count(src) == Len(src.lines)

get_line_by_index(src, index) == ListItem(src.lines, index)

get_line_by_number(src, number) == ListItem(src.lines, number - 1)

is_line_number_valid(src, number) == number > 0 /\ number <= get_line_count(src)

is_line_index_valid(src, index) == index >= 0 /\ index < get_line_count(src)

(***************************************************************************)
(* The grammar engine (codex/parser/grammar.py).                           *)
(*                                                                         *)
(* An expression is a record of its class and fields.  What match returns  *)
(* is a record: ok (a MatchResult was returned, not None), matched_string, *)
(* named_groups (the pairs of a name and a match, in the order they were   *)
(* captured), indexed_groups, threw (an ExpressionMatchError was raised),  *)
(* error (what it said) and parts (the components soft_match matched).     *)
(***************************************************************************)
\* the characters the regular expression class \s matches, of those texts are made of
WhitespaceChars == {" ", TAB, CR, NL}

RECURSIVE RunLength(_, _, _)
\* the length of the longest prefix of string made of chars, given that the first n are
RunLength(string, chars, n) ==
    IF n < Len(string) /\ string[n + 1] \in chars
    THEN RunLength(string, chars, n + 1)
    ELSE n

NoMatchError == [expected |-> None, got |-> None]

\* but_got
but_got(remaining) == IF Len(remaining) = 0 THEN "EOF" ELSE remaining[1]

\* ExpressionMatchError(string, "Expected ..., but got ...")
ExpressionMatchError(expected, string) == [expected |-> expected, got |-> but_got(string)]

\* MatchResult(matched_string)
MatchResult(matched_string) ==
    [ok |-> TRUE, matched_string |-> matched_string, named_groups |-> <<>>,
     indexed_groups |-> <<>>, threw |-> FALSE, error |-> NoMatchError, parts |-> 0]

\* None is returned; parts components had been matched
NoMatchResult(parts) == [MatchResult(<<>>) EXCEPT !.ok = FALSE, !.parts = parts]

\* the ExpressionMatchError is raised
RaisedMatchError(error) == [MatchResult(<<>>) EXCEPT !.ok = FALSE, !.threw = TRUE,
                                                     !.error = error]

\* no match: the error is raised when throw_on_failure is set, else None is returned
Unmatched(expected, string, throw_on_failure) ==
    IF throw_on_failure THEN RaisedMatchError(ExpressionMatchError(expected, string))
    ELSE NoMatchResult(0)

\* MatchResult.has_named_group
has_named_group(match, name) ==
    \E i \in 1..Len(match.named_groups) : match.named_groups[i].name = name

\* MatchResult.get_named_group, for a group the match has
get_named_group(match, name) ==
    match.named_groups[CHOOSE i \in 1..Len(match.named_groups) :
                           match.named_groups[i].name = name].match

\* Expression.with_name
with_name(expression, name) == [expression EXCEPT !.name = name]

\* Literal(literal), case sensitive
Literal(literal) == [Expression EXCEPT !.class = "Literal", !.literal = literal]

\* Literal(literal, case_sensitive=False)
Literal_case_insensitive(literal) == [Literal(literal) EXCEPT !.case_sensitive = FALSE]

\* Regex(regex)
Regex(regex) == [Expression EXCEPT !.class = "Regex", !.regex = regex]

\* ExprComponent(expression, optional, group_name)
ExprComponent(expression, optional, group_name) ==
    [expression |-> expression, optional |-> optional, group_name |-> group_name]

\* CompoundExpression(components)
CompoundExpression(components) ==
    [Expression EXCEPT !.class = "CompoundExpression", !.components = components]

\* UnionExpression(expressions)
UnionExpression(expressions) ==
    [Expression EXCEPT !.class = "UnionExpression", !.expressions = expressions]

\* Repeated(expression, min_count), without max_count
Repeated(expression, min_count) ==
    [Expression EXCEPT !.class = "Repeated", !.expressions = <<expression>>,
                       !.min_count = min_count]

\* Literal.human_representation without a name: repr(self.literal)
LiteralRepr(literal) ==
    CASE literal = <<"[">> -> "'['"
      [] literal = <<"]">> -> "']'"
      [] literal = <<"!">> -> "'!'"
      [] literal = <<"a">> -> "'a'"
      [] literal = <<"a", "b">> -> "'ab'"
      [] literal = <<":">> -> "':'"
      [] literal = <<",">> -> "','"
      [] literal = <<"v", "a", "r">> -> "'var'"
      [] literal = <<"u", "s", "i", "n", "g">> -> "'using'"
      [] OTHER -> "literal"

\* human_representation: the name when there is one; else the repr of a literal, and
\* "[Expression]" for a compound expression.  The grammar has no regex without a name,
\* and raises for no union and no repetition.
human_representation(expression) ==
    IF expression.name # None THEN expression.name
    ELSE IF expression.class = "Literal" THEN LiteralRepr(expression.literal)
    ELSE "[Expression]"

\* the length of re.match(regex, string).group() for the three regular expressions of
\* the grammar, 0 when there is no match: \s+ and \w+ take the longest run; .{0,}\S.{0,}
\* takes the characters up to the first newline when one of them is not whitespace
RegexMatchLength(regex, string) ==
    CASE regex = "\\s+" -> RunLength(string, WhitespaceChars, 0)
      [] regex = "\\w+" -> RunLength(string, WordChars, 0)
      [] regex = ".{0,}\\S.{0,}" ->
            LET n == RunLength(string, (WordChars \cup WhitespaceChars \cup Range(string))
                                           \ {NL}, 0)
            IN  IF \E i \in 1..n : string[i] \notin WhitespaceChars THEN n ELSE 0

RECURSIVE Match(_, _, _)
RECURSIVE SoftMatchFrom(_, _, _, _, _)
RECURSIVE UnionMatchFrom(_, _, _, _)
RECURSIVE RepeatedMatchFrom(_, _, _, _, _)

\* Literal.match: string[: len(literal) + 1] is what the case-insensitive match takes
LiteralMatch(expression, string, throw_on_failure) ==
    IF expression.case_sensitive /\ StartsWithAt(string, expression.literal, 1)
    THEN MatchResult(expression.literal)
    ELSE IF ~expression.case_sensitive
            /\ StartsWithAt(Lower(string), Lower(expression.literal), 1)
    THEN MatchResult(Take(string, Min(Len(string), Len(expression.literal) + 1)))
    ELSE Unmatched(human_representation(expression), string, throw_on_failure)

\* Regex.match
RegexMatch(expression, string, throw_on_failure) ==
    IF RegexMatchLength(expression.regex, string) > 0
    THEN MatchResult(Take(string, RegexMatchLength(expression.regex, string)))
    ELSE Unmatched(human_representation(expression), string, throw_on_failure)

\* the component matched: its text is added, its group captured, the part counted
AddComponent(result, component, match) ==
    [result EXCEPT !.matched_string = @ \o match.matched_string,
                   !.named_groups = IF component.group_name # None
                                    THEN Append(@, [name |-> component.group_name,
                                                    match |-> match])
                                    ELSE @,
                   !.parts = @ + 1]

\* CompoundExpression.soft_match from the i-th component on: string is what is left to
\* match, result what the components before have matched
SoftMatchFrom(components, i, string, throw_on_failure, result) ==
    IF i > Len(components) THEN result
    ELSE LET component == components[i]
             match     == Match(component.expression, string,
                                throw_on_failure /\ ~component.optional)
         IN  IF match.threw THEN [match EXCEPT !.parts = result.parts]
             ELSE IF match.ok
             THEN SoftMatchFrom(components, i + 1,
                                Drop(string, Len(match.matched_string)), throw_on_failure,
                                AddComponent(result, component, match))
             ELSE IF component.optional
             THEN SoftMatchFrom(components, i + 1, string, throw_on_failure, result)
             ELSE IF throw_on_failure
             THEN [RaisedMatchError(ExpressionMatchError(
                       human_representation(component.expression), string))
                   EXCEPT !.parts = result.parts]
             ELSE NoMatchResult(result.parts)

\* UnionExpression.match from the i-th expression on
UnionMatchFrom(expression, i, string, throw_on_failure) ==
    IF i > Len(expression.expressions)
    THEN Unmatched(human_representation(expression), string, throw_on_failure)
    ELSE IF Match(expression.expressions[i], string, FALSE).ok
    THEN Match(expression.expressions[i], string, FALSE)
    ELSE UnionMatchFrom(expression, i + 1, string, throw_on_failure)

\* Repeated.match: the loop, after count matches
RepeatedMatchFrom(expression, string, throw_on_failure, result, count) ==
    LET match == Match(expression.expressions[1], string, throw_on_failure)
    IN  IF match.threw THEN match
        ELSE IF match.ok
        THEN RepeatedMatchFrom(expression, Drop(string, Len(match.matched_string)),
                               throw_on_failure,
                               [result EXCEPT !.matched_string = @ \o match.matched_string,
                                              !.indexed_groups = Append(@, match)],
                               count + 1)
        ELSE IF count < expression.min_count
        THEN Unmatched(human_representation(expression), string, throw_on_failure)
        ELSE result

\* Expression.match of the class of the expression; for a compound expression what
\* soft_match returns, parts included
Match(expression, string, throw_on_failure) ==
    CASE expression.class = "Literal" -> LiteralMatch(expression, string, throw_on_failure)
      [] expression.class = "Regex" -> RegexMatch(expression, string, throw_on_failure)
      [] expression.class = "CompoundExpression" ->
            SoftMatchFrom(expression.components, 1, string, throw_on_failure,
                          MatchResult(<<>>))
      [] expression.class = "UnionExpression" ->
            UnionMatchFrom(expression, 1, string, throw_on_failure)
      [] expression.class = "Repeated" ->
            RepeatedMatchFrom(expression, string, throw_on_failure, MatchResult(<<>>), 0)

\* no expression: None
NoExpression == Expression

RECURSIVE FirstSuccessful(_, _, _)
\* identify_string, first loop: the first candidate that matches, from the i-th on
FirstSuccessful(string, candidate_expressions, i) ==
    IF i > Len(candidate_expressions) THEN NoExpression
    ELSE IF Match(candidate_expressions[i], string, FALSE).ok THEN candidate_expressions[i]
    ELSE FirstSuccessful(string, candidate_expressions, i + 1)

RECURSIVE BestMatch(_, _, _, _, _)
\* identify_string, second loop: the candidate with the most matched parts
BestMatch(string, candidate_expressions, i, best_match, best_parts) ==
    IF i > Len(candidate_expressions) THEN best_match
    ELSE IF Match(candidate_expressions[i], string, FALSE).parts > best_parts
    THEN BestMatch(string, candidate_expressions, i + 1, candidate_expressions[i],
                   Match(candidate_expressions[i], string, FALSE).parts)
    ELSE BestMatch(string, candidate_expressions, i + 1, best_match, best_parts)

\* identify_string
identify_string(string, candidate_expressions) ==
    IF FirstSuccessful(string, candidate_expressions, 1) # NoExpression
    THEN FirstSuccessful(string, candidate_expressions, 1)
    ELSE BestMatch(string, candidate_expressions, 1, NoExpression, 0)

(***************************************************************************)
(* The grammar of the language (codex/parser/syntax.py).                   *)
(***************************************************************************)
WHITESPACE == with_name(Regex("\\s+"), "whitespace")

SYMBOL_NAME == with_name(Regex("\\w+"), "symbol name")

SQ_BRACKET_OPEN == Literal(<<"[">>)

SQ_BRACKET_CLOSE == Literal(<<"]">>)

EXCLAMATION_MARK == Literal(<<"!">>)

NON_EMPTY_TEXT == with_name(Regex(".{0,}\\S.{0,}"), "non-empty text")

COMMA == Literal(<<",">>)

GROUP_PROMPT == "prompt"

GROUP_PROMPT_TEXT == "prompt_text"

GROUP_PARAMETERS == "parameters"

GROUP_TYPE_NAME == "type_name"

GROUP_OPTIONAL_TYPE == "optional_type"

GROUP_SYMBOL_NAME == "symbol_name"

COMPONENT_OPT_WHITESPACE == ExprComponent(WHITESPACE, TRUE, None)

COMPONENT_REQ_WHITESPACE == ExprComponent(WHITESPACE, FALSE, None)

COMPONENT_OPT_TYPE ==
    ExprComponent(
        CompoundExpression(<<ExprComponent(SYMBOL_NAME, FALSE, GROUP_TYPE_NAME),
                             COMPONENT_REQ_WHITESPACE>>),
        TRUE, GROUP_OPTIONAL_TYPE)

AIGenerativeParameterNonLast ==
    with_name(CompoundExpression(<<COMPONENT_OPT_WHITESPACE,
                                   ExprComponent(SYMBOL_NAME, FALSE, "symbol_name"),
                                   COMPONENT_OPT_WHITESPACE,
                                   ExprComponent(COMMA, FALSE, None)>>),
              "non-last parameter")

AIGenerativeParameterLast ==
    with_name(CompoundExpression(<<COMPONENT_OPT_WHITESPACE,
                                   ExprComponent(SYMBOL_NAME, FALSE, "symbol_name"),
                                   COMPONENT_OPT_WHITESPACE>>),
              "last parameter")

AIGenerativeParametersMultiple ==
    with_name(CompoundExpression(<<ExprComponent(SQ_BRACKET_OPEN, FALSE, None),
                                   ExprComponent(Repeated(AIGenerativeParameterNonLast, 0),
                                                 FALSE, "non_last_parameters"),
                                   ExprComponent(AIGenerativeParameterLast, FALSE,
                                                 "last_parameter"),
                                   ExprComponent(SQ_BRACKET_CLOSE, FALSE, None)>>),
              "multiple parameters")

AIGenerativeParametersSingle ==
    with_name(CompoundExpression(<<ExprComponent(SQ_BRACKET_OPEN, FALSE, None),
                                   ExprComponent(AIGenerativeParameterLast, FALSE,
                                                 "last_parameter"),
                                   ExprComponent(SQ_BRACKET_CLOSE, FALSE, None)>>),
              "single parameter")

AIPrompt ==
    with_name(CompoundExpression(<<ExprComponent(
                                       UnionExpression(<<AIGenerativeParametersMultiple,
                                                         AIGenerativeParametersSingle>>),
                                       TRUE, GROUP_PARAMETERS),
                                   COMPONENT_OPT_WHITESPACE,
                                   ExprComponent(Literal(<<":">>), FALSE, None),
                                   COMPONENT_OPT_WHITESPACE,
                                   ExprComponent(NON_EMPTY_TEXT, FALSE,
                                                 GROUP_PROMPT_TEXT)>>),
              "generative statement")

COMPONENT_PROMPT == ExprComponent(AIPrompt, FALSE, GROUP_PROMPT)

ActionStatement ==
    with_name(CompoundExpression(<<ExprComponent(EXCLAMATION_MARK, FALSE, None),
                                   COMPONENT_OPT_WHITESPACE,
                                   COMPONENT_PROMPT>>),
              "action statement")

VariableDeclaration ==
    CompoundExpression(<<ExprComponent(Literal(<<"v", "a", "r">>), FALSE, None),
                         COMPONENT_REQ_WHITESPACE,
                         COMPONENT_OPT_TYPE,
                         ExprComponent(SYMBOL_NAME, FALSE, GROUP_SYMBOL_NAME),
                         COMPONENT_OPT_WHITESPACE,
                         COMPONENT_PROMPT>>)

UsingDirective ==
    CompoundExpression(<<ExprComponent(Literal(<<"u", "s", "i", "n", "g">>), FALSE, None),
                         COMPONENT_REQ_WHITESPACE,
                         ExprComponent(SYMBOL_NAME, FALSE, "module_name")>>)

\* the matched strings of the symbol_name groups of the matches
SymbolNamesOf(matches) ==
    [i \in 1..Len(matches) |-> get_named_group(matches[i], "symbol_name").matched_string]

\* get_parameter_names with the last name put first
get_parameter_names_last_first(parameter_match) ==
    <<get_named_group(get_named_group(parameter_match, "last_parameter"),
                      "symbol_name").matched_string>>
    \o (IF has_named_group(parameter_match, "non_last_parameters")
        THEN SymbolNamesOf(get_named_group(parameter_match,
                                           "non_last_parameters").indexed_groups)
        ELSE <<>>)

\* get_parameter_names
get_parameter_names(parameter_match) ==
    (IF has_named_group(parameter_match, "non_last_parameters")
     THEN SymbolNamesOf(get_named_group(parameter_match,
                                        "non_last_parameters").indexed_groups)
     ELSE <<>>)
    \o <<get_named_group(get_named_group(parameter_match, "last_parameter"),
                         "symbol_name").matched_string>>

\* PromptData(prompt, given)
PromptData(text, given) == [prompt |-> text, given |-> given]

\* extract_prompt, for a match of AIPrompt
extract_prompt(match) ==
    PromptData(get_named_group(match, GROUP_PROMPT_TEXT).matched_string,
               IF has_named_group(match, GROUP_PARAMETERS)
               THEN get_parameter_names(get_named_group(match, GROUP_PARAMETERS))
               ELSE <<>>)

\* extract_module_name, for a match of UsingDirective
extract_module_name(match) == get_named_group(match, "module_name").matched_string

(***************************************************************************)
(* The parser (codex/parser/parser.py).                                    *)
(***************************************************************************)
\* names as the registries hold them, with their characters
NameTable ==
    <<[name |-> "math", text |-> <<"m", "a", "t", "h">>],
      [name |-> "fs", text |-> <<"f", "s">>],
      [name |-> "random", text |-> <<"r", "a", "n", "d", "o", "m">>],
      [name |-> "linalg", text |-> <<"l", "i", "n", "a", "l", "g">>],
      [name |-> "json", text |-> <<"j", "s", "o", "n">>],
      [name |-> "array", text |-> <<"a", "r", "r", "a", "y">>],
      [name |-> "bogus", text |-> <<"b", "o", "g", "u", "s">>],
      [name |-> "int", text |-> <<"i", "n", "t">>],
      [name |-> "float", text |-> <<"f", "l", "o", "a", "t">>],
      [name |-> "string", text |-> <<"s", "t", "r", "i", "n", "g">>],
      [name |-> "bool", text |-> <<"b", "o", "o", "l">>],
      [name |-> "matrix", text |-> <<"m", "a", "t", "r", "i", "x">>]>>

\* the characters of a name
Chars(name) == (CHOOSE e \in Range(NameTable) : e.name = name).text

\* the name a text spells; a text that spells none of the names is "unlisted"
NameOf(text) ==
    IF \E e \in Range(NameTable) : e.text = text
    THEN (CHOOSE e \in Range(NameTable) : e.text = text).name
    ELSE "unlisted"

\* is_blank_string: s.strip() == ""
is_blank_string(s) == \A i \in 1..Len(s) : s[i] \in WhitespaceChars

\* CodexSyntaxError(source, line, message, note)
CodexSyntaxError(line, message, about) ==
    [type |-> "CodexSyntaxError", line_no |-> line, message |-> message, about |-> about]

\* an exception that is no CodexSyntaxError
OtherError(type, line, message, about) ==
    [type |-> type, line_no |-> line, message |-> message, about |-> about]

RECURSIVE IndentationFrom(_, _, _)
\* the loop of get_indentation_of_current_line at the p-th character, in that mode
IndentationFrom(line, p, indentation_mode) ==
    IF p > Len(line) THEN [raised |-> FALSE, note |-> None, indentation_level |-> p - 1]
    ELSE IF line[p] = " "
         THEN IF indentation_mode = "MODE_TABS"
              THEN [raised |-> TRUE, note |-> "Line starts with a tab, but contains spaces.",
                    indentation_level |-> p - 1]
              ELSE IndentationFrom(line, p + 1, "MODE_SPACES")
    ELSE IF line[p] = TAB
         THEN IF indentation_mode = "MODE_SPACES"
              THEN [raised |-> TRUE, note |-> "Line starts with a space, but contains tabs.",
                    indentation_level |-> p - 1]
              ELSE IndentationFrom(line, p + 1, "MODE_TABS")
    ELSE [raised |-> FALSE, note |-> None, indentation_level |-> p - 1]

\* get_indentation_of_current_line counting spaces only
get_indentation_spaces_only(line) ==
    LET n == RunLength(line, {" "}, 0)
    IN  [raised |-> FALSE, note |-> None, indentation |-> n, trimmed_line |-> Drop(line, n)]

\* get_indentation_of_current_line: the level and the line without its indentation, or
\* the syntax error for mixed indentation
get_indentation_of_current_line(line) ==
    LET r == IndentationFrom(line, 1, "MODE_UNASSIGNED")
    IN  [raised |-> r.raised, note |-> r.note, indentation |-> r.indentation_level,
         trimmed_line |-> Drop(line, r.indentation_level)]

\* a node with its Location and the given-list of its prompt
Located(node, line_no, given) ==
    [kind |-> node.kind, module_name |-> node.module_name,
     variable_name |-> node.variable_name, type |-> node.type, prompt |-> node.prompt,
     given |-> given, line_no |-> line_no]

NoNode == Located(UsingDirectiveNode(None), 0, <<>>)

\* what parse_current_line does: returns None, returns a node, or raises
ReturnsNone == [node |-> NoNode, exception |-> NoException]

ReturnsNode(node) == [node |-> node, exception |-> NoException]

Raises(e) == [node |-> NoNode, exception |-> e]

\* trimmed_line.split(' ')[0]
FirstToken(trimmed_line) == Split(trimmed_line, " ")[1]

\* the expressions parse_current_line chooses from
CandidateExpressions == <<ActionStatement, VariableDeclaration, UsingDirective>>

\* Parser.parse_current_line at line index idx
parse_current_line(src, idx, enclosing_indentation_level) ==
    LET line     == get_line_by_index(src, idx)
        line_no  == idx + 1
        ind      == get_indentation_of_current_line(line)
        trimmed  == ind.trimmed_line
        expr     == identify_string(trimmed, CandidateExpressions)
        match    == Match(expr, trimmed, TRUE)
        prompt   == extract_prompt(get_named_group(match, GROUP_PROMPT))
    IN  IF is_blank_string(line) THEN ReturnsNone
        ELSE IF ind.raised
             THEN Raises(CodexSyntaxError(line_no, "Mixed indentation is not allowed.",
                                          <<ind.note>>))
        ELSE IF StartsWithAt(trimmed, <<"/", "/">>, 1) THEN ReturnsNone
        ELSE IF ind.indentation > enclosing_indentation_level
             THEN Raises(CodexSyntaxError(line_no, "Unexpected indentation",
                                          <<"exceeds the enclosing level">>))
        ELSE IF expr = NoExpression
             THEN Raises(CodexSyntaxError(line_no, "Unrecognized token",
                                          FirstToken(trimmed)))
        ELSE IF match.threw
             THEN Raises(CodexSyntaxError(line_no, "Expected",
                                          <<match.error.expected, match.error.got>>))
        ELSE IF expr = ActionStatement
             THEN ReturnsNode(Located(ActionStatementNode(prompt.prompt), line_no,
                                      prompt.given))
        ELSE IF expr = VariableDeclaration
             THEN IF ~has_named_group(match, "variable_name")
                  THEN Raises(OtherError("ValueError", line_no, "Named group does not exist",
                                         <<"variable_name">>))
                  ELSE IF ~has_named_group(match, "type_name")
                  THEN Raises(OtherError("ValueError", line_no, "Named group does not exist",
                                         <<"type_name">>))
                  ELSE ReturnsNode(Located(
                           VariableDeclarationNode(
                               get_named_group(match, "variable_name").matched_string,
                               NameOf(get_named_group(match, "type_name").matched_string),
                               prompt.prompt),
                           line_no, prompt.given))
        ELSE ReturnsNode(Located(UsingDirectiveNode(NameOf(extract_module_name(match))),
                                 line_no, <<>>))

\* Parser.at_end
at_end(src, idx) == idx >= get_line_count(src)

\* the compiler before it is constructed
CompilerIdle ==
    /\ module = <<>>
    /\ status = "idle"
    /\ pc = 1
    /\ header = <<>>
    /\ program = <<>>
    /\ errors = <<>>
    /\ warnings = <<>>
    /\ used_modules = {}
    /\ custom_types = {}
    /\ calls = <<>>
    /\ config = DefaultConfig
    /\ validation = "pending"

compiler_vars == <<module, status, pc, header, program, errors, warnings, used_modules,
                   custom_types, calls, config, validation>>

\* the lines sources are made of
KwUsing == <<"u", "s", "i", "n", "g">>

KwVar == <<"v", "a", "r">>

TextHi == <<"h", "i">>

LineUsingMath == KwUsing \o <<" ">> \o Chars("math")

\* a using directive followed by further text
LineUsingMathExtra == LineUsingMath \o <<" ", "j">>

LineAction == <<"!", " ", ":", " ">> \o TextHi

LineActionGiven == <<"!", "[", "a", ",", " ", "b", "]", ":", " ">> \o TextHi

LineVar == KwVar \o <<" ", "x", ":", " ">> \o TextHi

LineVarTyped == KwVar \o <<" ">> \o Chars("int") \o <<" ", "x", ":", " ">> \o TextHi

LineComment == <<"/", "/", " ", "c">>

LineFoo == <<"f", "o", "o">>

LinePool ==
    {LineUsingMath, LineAction, LineActionGiven, LineVar, LineVarTyped,
     <<>>, <<" ", " ">>, LineComment, <<" ">> \o LineComment,
     <<" ">> \o LineUsingMath, <<TAB>> \o LineAction, <<" ", TAB>> \o LineUsingMath,
     <<TAB, " ">> \o LineAction, <<" ", TAB>> \o LineComment,
     LineFoo, <<" ">> \o LineFoo, KwUsing, <<" ">> \o LineVar, LineUsingMathExtra}

\* most lines of a source
MaxLines == 2

RECURSIVE JoinLines(_)
\* the lines with a newline between them
JoinLines(lines) ==
    IF Len(lines) = 0 THEN <<>>
    ELSE IF Len(lines) = 1 THEN lines[1]
    ELSE lines[1] \o <<NL>> \o JoinLines(Tail(lines))

\* most characters of a text made of letters and line ends
MaxChars == 4

\* every text of at most MaxChars characters, each a letter, a carriage return or a
\* newline
RawTexts == UNION {[1..n -> {"a", CR, NL}] : n \in 0..MaxChars}

\* the source texts that are parsed: at most MaxLines lines of the pool, and the texts
\* made of letters and line ends
SourceTexts ==
    {JoinLines(ls) : ls \in UNION {[1..n -> LinePool] : n \in 1..MaxLines}} \cup RawTexts

\* CodexSource.from_string(text), then Parser(source)
ConstructSource ==
    /\ parsing = "idle"
    /\ ~source.loaded
    /\ source' = CodexSource(args.text)
    /\ current_line_idx' = 0
    /\ parsing' = "running"
    /\ UNCHANGED <<compiler_vars, children, exception, truncation, cli_pc, args, stderr,
                   output_file>>

\* Parser.parse: one round of its loop
ParseCurrentLine ==
    /\ parsing = "running"
    /\ ~at_end(source, current_line_idx)
    /\ LET r == parse_current_line(source, current_line_idx, 0)
       IN  IF r.exception # NoException
           THEN /\ parsing' = "raised"
                /\ exception' = r.exception
                /\ UNCHANGED <<children, current_line_idx>>
           ELSE /\ children' = IF r.node # NoNode THEN Append(children, r.node)
                               ELSE children
                /\ current_line_idx' = current_line_idx + 1
                /\ UNCHANGED <<parsing, exception>>
    /\ UNCHANGED <<compiler_vars, source, truncation, cli_pc, args, stderr, output_file>>

\* Parser.parse: the loop is over, the Module is returned
ReturnFromParse ==
    /\ parsing = "running"
    /\ at_end(source, current_line_idx)
    /\ parsing' = "returned"
    /\ UNCHANGED <<compiler_vars, source, current_line_idx, children, exception, truncation,
                   cli_pc, args, stderr, output_file>>

InitParse ==
    /\ CompilerIdle
    /\ source = NoSource
    /\ current_line_idx = 0
    /\ parsing = "idle"
    /\ children = <<>>
    /\ exception = NoException
    /\ truncation = NoTruncation
    /\ cli_pc = "idle"
    /\ args \in {[NoArgs EXCEPT !.text = t] : t \in SourceTexts}
    /\ stderr = <<>>
    /\ output_file = NoOutput

NextParse ==
    \/ ConstructSource
    \/ ParseCurrentLine
    \/ ReturnFromParse

SpecParse == InitParse /\ [][NextParse]_vars

(***************************************************************************)
(* The grammar on lines written to its syntax.                             *)
(***************************************************************************)
\* most names in a given-list
MaxGiven == 2

\* symbol names: letters, digits, underscore
SymbolNames == {<<"a">>, <<"b", "_", "2">>, Chars("math")}

\* prompt texts: they start with a character that is not whitespace
PromptTexts ==
    {TextHi, <<"s", "u", "m", " ", "a", " ", "a", "n", "d", " ", "b">>, <<"x", " ">>,
     <<"[", "k", "]", ":", " ", "z">>, <<"a", ":", "b">>}

RECURSIVE JoinNames(_)
\* the names with ", " between them
JoinNames(names) ==
    IF Len(names) = 0 THEN <<>>
    ELSE IF Len(names) = 1 THEN names[1]
    ELSE names[1] \o <<",", " ">> \o JoinNames(Tail(names))

\* the line `! [p1, ..., pn]: text`, the brackets left out when there is no name, and
\* the line `using M`
WrittenLine(written) ==
    IF written.statement = "using"
    THEN KwUsing \o <<" ">> \o written.names[1]
    ELSE <<"!", " ">>
         \o (IF Len(written.names) = 0 THEN <<>>
             ELSE <<"[">> \o JoinNames(written.names) \o <<"]">>)
         \o <<":", " ">> \o written.text

\* what is written on the lines the grammar is tried on
WrittenLines ==
    {[statement |-> "action", names |-> ns, text |-> t] :
        ns \in UNION {[1..n -> SymbolNames] : n \in 0..MaxGiven}, t \in PromptTexts}
    \cup {[statement |-> "using", names |-> <<m>>, text |-> <<>>] : m \in SymbolNames}

\* the grammar of the statement matched against the line as parse_current_line does,
\* and the match projected by extract_prompt or extract_module_name
MatchLine ==
    /\ parsing = "idle"
    /\ children = <<>>
    /\ LET using == args.written.statement = "using"
           match == Match(IF using THEN UsingDirective ELSE ActionStatement, args.text, TRUE)
       IN  children' = <<[expr |-> IF using THEN "UsingDirective" ELSE "ActionStatement",
                          ok |-> match.ok,
                          prompt |-> IF match.ok /\ ~using
                                     THEN extract_prompt(get_named_group(match, GROUP_PROMPT))
                                     ELSE PromptData(<<>>, <<>>),
                          module_name |-> IF match.ok /\ using
                                          THEN extract_module_name(match) ELSE <<>>]>>
    /\ UNCHANGED <<compiler_vars, source, current_line_idx, parsing, exception, truncation,
                   cli_pc, args, stderr, output_file>>

InitSyntax ==
    /\ CompilerIdle
    /\ source = NoSource
    /\ current_line_idx = 0
    /\ parsing = "idle"
    /\ children = <<>>
    /\ exception = NoException
    /\ truncation = NoTruncation
    /\ cli_pc = "idle"
    /\ args \in {[NoArgs EXCEPT !.text = WrittenLine(w), !.written = w] : w \in WrittenLines}
    /\ stderr = <<>>
    /\ output_file = NoOutput

NextSyntax == MatchLine

SpecSyntax == InitSyntax /\ [][NextSyntax]_vars

(***************************************************************************)
(* What a line is, read off its characters alone.                          *)
(***************************************************************************)
\* the length of the leading run of spaces and tabs
LeadingRun(line) == RunLength(line, {" ", TAB}, 0)

IsBlankLine(line) == \A i \in 1..Len(line) : line[i] \in WhitespaceChars

IsCommentLine(line) == StartsWithAt(line, <<"/", "/">>, LeadingRun(line) + 1)

IsIndentedLine(line) == LeadingRun(line) > 0

\* the leading run has spaces and tabs
IsMixedLine(line) ==
    /\ \E i \in 1..LeadingRun(line) : line[i] = " "
    /\ \E i \in 1..LeadingRun(line) : line[i] = TAB

\* an unindented line that one of the three grammars matches
IsStatementLine(line) ==
    /\ ~IsIndentedLine(line)
    /\ \/ Match(ActionStatement, line, FALSE).ok
       \/ Match(VariableDeclaration, line, FALSE).ok
       \/ Match(UsingDirective, line, FALSE).ok

\* the line the loop of parse() is at
CurrentLine == source.lines[current_line_idx + 1]

\* the loop of parse() is about to handle a line
AtLine == parsing = "running" /\ current_line_idx < Len(source.lines)

\* parse() raises the syntax error of that message for the line it is at
RaisesSyntaxError(message) ==
    /\ parsing' = "raised"
    /\ exception'.type = "CodexSyntaxError"
    /\ exception'.message = message
    /\ exception'.line_no = current_line_idx + 1
    /\ children' = children

\* parse() goes to the next line without a node
SkipsLine ==
    /\ parsing' = "running"
    /\ current_line_idx' = current_line_idx + 1
    /\ children' = children
    /\ exception' = NoException

(***************************************************************************)
(* C16: the lines of a source.                                             *)
(***************************************************************************)
\* C16: for any source text the constructed source has
\* get_line_by_number(i + 1) = get_line_by_index(i) for every index i from 0 below
\* get_line_count(), is_line_index_valid(i) holds exactly for those i, and neither a line
\* nor the stored content contains a carriage return followed by a line feed.
C16_SourceLines ==
    source.loaded =>
        /\ \A i \in 0..(get_line_count(source) - 1) :
               get_line_by_number(source, i + 1) = get_line_by_index(source, i)
        /\ \A i \in -2..(get_line_count(source) + 2) :
               is_line_index_valid(source, i) <=> (0 <= i /\ i < get_line_count(source))
        /\ Occurrences(source.content, <<CR, NL>>) = 0
        /\ \A i \in 1..Len(source.lines) : Occurrences(source.lines[i], <<CR, NL>>) = 0

(***************************************************************************)
(* C17: what the grammars make of a line written to their syntax.          *)
(***************************************************************************)
\* C17: for a line `! [p1, ..., pn]: text` of n >= 0 symbol names, the brackets left out
\* when n = 0 and text beginning with a character that is no whitespace, the
\* action-statement grammar matches and the projected prompt has the text `text` and the
\* given-list p1, ..., pn in written order; for a line `using M` the using-directive
\* grammar matches and projects to the module name M.
C17_GrammarProjection ==
    children # <<>> =>
        LET r == children[1]
            w == args.written
        IN  /\ r.ok
            /\ w.statement = "action" =>
                   /\ r.expr = "ActionStatement"
                   /\ r.prompt.prompt = w.text
                   /\ r.prompt.given = w.names
            /\ w.statement = "using" =>
                   /\ r.expr = "UsingDirective"
                   /\ r.module_name = w.names[1]

\* an action line of two names and a using line have been matched
C17_Witness ==
    /\ children # <<>>
    /\ args.written.statement = "action"
    /\ Len(args.written.names) = 2
    /\ args.written.names[1] # args.written.names[2]
    /\ children[1].prompt.given = args.written.names

(***************************************************************************)
(* C18: indented lines.                                                    *)
(***************************************************************************)
\* C18, as stated: every line that is not blank and not a comment and begins with a space
\* or a tab makes parse raise the 'unexpected indentation' syntax error for that line,
\* also when the text behind the indentation is a valid statement; blank lines and
\* comment lines never raise it and produce no node.
C18_IndentedRaises ==
    [][AtLine =>
         /\ (IsIndentedLine(CurrentLine) /\ ~IsBlankLine(CurrentLine)
                 /\ ~IsCommentLine(CurrentLine))
                => RaisesSyntaxError("Unexpected indentation")
         /\ (IsBlankLine(CurrentLine) \/ IsCommentLine(CurrentLine))
                => /\ exception'.message # "Unexpected indentation"
                   /\ children' = children]_vars

\* C18, amended: a line that is not blank and not a comment and whose leading spaces and
\* tabs are of one kind makes parse raise the 'unexpected indentation' syntax error for
\* that line, also when the text behind the indentation is a valid statement; a line that
\* is not blank and whose leading run has both spaces and tabs makes parse raise the
\* 'mixed indentation' syntax error for that line instead, comment or not; blank lines and
\* comment lines never raise 'unexpected indentation' and produce no node.
C18_IndentedRaisesUnlessMixed ==
    [][AtLine =>
         /\ (IsIndentedLine(CurrentLine) /\ ~IsBlankLine(CurrentLine)
                 /\ ~IsCommentLine(CurrentLine) /\ ~IsMixedLine(CurrentLine))
                => RaisesSyntaxError("Unexpected indentation")
         /\ (IsMixedLine(CurrentLine) /\ ~IsBlankLine(CurrentLine))
                => RaisesSyntaxError("Mixed indentation is not allowed.")
         /\ (IsBlankLine(CurrentLine) \/ IsCommentLine(CurrentLine))
                => /\ exception'.message # "Unexpected indentation"
                   /\ children' = children
         /\ (IsBlankLine(CurrentLine)
                 \/ (IsCommentLine(CurrentLine) /\ ~IsMixedLine(CurrentLine)))
                => SkipsLine]_vars

\* the second line, an indented valid statement, raised 'unexpected indentation' after
\* the first line gave a node
C18_Witness ==
    /\ parsing = "raised"
    /\ exception.message = "Unexpected indentation"
    /\ exception.line_no = 2
    /\ Len(children) = 1
    /\ IsStatementLine(Drop(source.lines[2], LeadingRun(source.lines[2])))

(***************************************************************************)
(* C19: the first invalid line.                                            *)
(***************************************************************************)
\* a line that is neither blank, nor a comment, nor a valid top-level statement
IsInvalidLine(line) ==
    ~IsBlankLine(line) /\ ~IsCommentLine(line) /\ ~IsStatementLine(line)

\* the one-based number of the first invalid line of the source
FirstInvalidLine ==
    CHOOSE n \in 1..Len(source.lines) :
        /\ IsInvalidLine(source.lines[n])
        /\ \A k \in 1..(n - 1) : ~IsInvalidLine(source.lines[k])

\* C19: when a source has a line that is neither blank, nor a comment, nor a valid
\* top-level statement, parse ends by raising one syntax error that carries the
\* one-based number of the first such line; no Module is returned and no line after
\* that one is examined.  Stated for the sources none of whose lines mixes spaces and
\* tabs in its indentation.
C19_FirstInvalidLine ==
    (/\ source.loaded
     /\ \A n \in 1..Len(source.lines) : ~IsMixedLine(source.lines[n])
     /\ \E n \in 1..Len(source.lines) : IsInvalidLine(source.lines[n])) =>
        /\ parsing # "returned"
        /\ current_line_idx < FirstInvalidLine
        /\ parsing = "raised" =>
               /\ exception.type = "CodexSyntaxError"
               /\ exception.line_no = FirstInvalidLine
               /\ current_line_idx = FirstInvalidLine - 1

(***************************************************************************)
(* C20: variable declarations.                                             *)
(***************************************************************************)
\* the line is unindented and the variable-declaration grammar matches it
IsVariableDeclarationLine(line) ==
    ~IsIndentedLine(line) /\ Match(VariableDeclaration, line, FALSE).ok

\* C20: for every unindented line that the variable-declaration grammar matches, parsing
\* produces a VariableDeclaration node whose variable_name is the declared symbol, whose
\* type is the type written before it and absent when none is written, whose prompt is
\* the projected prompt of the line and whose location is the one-based number of the
\* line; parsing such a line never fails.
C20_VariableDeclarationNode ==
    [][(AtLine /\ IsVariableDeclarationLine(CurrentLine)) =>
         LET match  == Match(VariableDeclaration, CurrentLine, FALSE)
             prompt == extract_prompt(get_named_group(match, GROUP_PROMPT))
         IN  /\ parsing' = "running"
             /\ exception' = NoException
             /\ current_line_idx' = current_line_idx + 1
             /\ children' =
                    Append(children,
                           Located(VariableDeclarationNode(
                                       get_named_group(match, GROUP_SYMBOL_NAME).matched_string,
                                       IF has_named_group(match, GROUP_OPTIONAL_TYPE)
                                       THEN NameOf(get_named_group(
                                                       get_named_group(match,
                                                                       GROUP_OPTIONAL_TYPE),
                                                       GROUP_TYPE_NAME).matched_string)
                                       ELSE None,
                                       prompt.prompt),
                                   current_line_idx + 1, prompt.given))]_vars

(***************************************************************************)
(* Prompts and their truncation (codex/openai/prompts.py).                 *)
(*                                                                         *)
(* The tokenizer is the pretrained GPT-2 tokenizer of a library.  Here a   *)
(* token is a word with the spaces before it: encoding cuts the text in    *)
(* front of every run of spaces, decoding joins the tokens.                *)
(***************************************************************************)
RECURSIVE EncodeFrom(_, _, _)
\* the tokens of text from position p on, with the token begun before p
EncodeFrom(text, p, token) ==
    IF p > Len(text) THEN IF token = <<>> THEN <<>> ELSE <<token>>
    ELSE IF text[p] = " " /\ token # <<>> /\ token[Len(token)] # " "
         THEN <<token>> \o EncodeFrom(text, p + 1, <<" ">>)
    ELSE EncodeFrom(text, p + 1, Append(token, text[p]))

\* TOKENIZER.encode
Encode(text) == EncodeFrom(text, 1, <<>>)

RECURSIVE Decode(_)
\* TOKENIZER.decode
Decode(token_ids) ==
    IF token_ids = <<>> THEN <<>> ELSE token_ids[1] \o Decode(Tail(token_ids))

\* count_tokens
count_tokens(text) == Len(Encode(text))

\* CompletionPrompt(prompt)
CompletionPrompt(prompt) ==
    [kind |-> "CompletionPrompt", prompt |-> prompt, prefix |-> <<>>, suffix |-> <<>>,
     min_prefix_tokens |-> 0, min_suffix_tokens |-> 0]

\* InsertionPrompt(prefix, suffix), then set_truncation_settings
InsertionPrompt(prefix, suffix, min_prefix_tokens, min_suffix_tokens) ==
    [kind |-> "InsertionPrompt", prompt |-> <<>>, prefix |-> prefix, suffix |-> suffix,
     min_prefix_tokens |-> min_prefix_tokens, min_suffix_tokens |-> min_suffix_tokens]

\* get_token_count of either prompt
get_token_count(p) ==
    IF p.kind = "CompletionPrompt" THEN count_tokens(p.prompt)
    ELSE count_tokens(p.prefix) + count_tokens(p.suffix)

\* list.pop(0)
Pop0(list) == Tail(list)

\* list.pop()
PopLast(list) == SubSeq(list, 1, Len(list) - 1)

RECURSIVE PopToBudget(_, _)
\* while len(token_ids) > max_tokens: token_ids.pop(0)
PopToBudget(token_ids, max_tokens) ==
    IF Len(token_ids) > max_tokens THEN PopToBudget(Pop0(token_ids), max_tokens)
    ELSE token_ids

RECURSIVE PopToBudgetFromBack(_, _)
\* the loop taking tokens from the end
PopToBudgetFromBack(token_ids, max_tokens) ==
    IF Len(token_ids) > max_tokens THEN PopToBudgetFromBack(PopLast(token_ids), max_tokens)
    ELSE token_ids

\* what truncate_prompt does: the prompt as it leaves it, and the exception it raises
Truncated(p, raised) == [prompt |-> p, raised |-> raised]

\* CompletionPrompt.truncate_prompt taking tokens from the end of the prompt
CompletionPrompt_truncate_prompt_from_back(p, max_tokens) ==
    LET token_ids == Encode(p.prompt)
    IN  IF Len(token_ids) <= max_tokens THEN Truncated(p, None)
        ELSE Truncated([p EXCEPT !.prompt = Decode(PopToBudgetFromBack(token_ids,
                                                                      max_tokens))],
                       None)

\* CompletionPrompt.truncate_prompt
CompletionPrompt_truncate_prompt(p, max_tokens) ==
    LET token_ids == Encode(p.prompt)
    IN  IF Len(token_ids) <= max_tokens THEN Truncated(p, None)
        ELSE Truncated([p EXCEPT !.prompt = Decode(PopToBudget(token_ids, max_tokens))],
                       None)

RECURSIVE PopPrefix(_, _, _, _)
\* the loop over the prefix: prefix_tokens.pop(0)
PopPrefix(prefix_tokens, suffix_tokens, max_tokens, min_prefix_tokens) ==
    IF /\ Len(prefix_tokens) + Len(suffix_tokens) > max_tokens
       /\ Len(prefix_tokens) > min_prefix_tokens
    THEN PopPrefix(Pop0(prefix_tokens), suffix_tokens, max_tokens, min_prefix_tokens)
    ELSE prefix_tokens

RECURSIVE PopSuffix(_, _, _, _)
\* the loop over the suffix: suffix_tokens.pop(0)
PopSuffix(prefix_tokens, suffix_tokens, max_tokens, min_suffix_tokens) ==
    IF /\ Len(prefix_tokens) + Len(suffix_tokens) > max_tokens
       /\ Len(suffix_tokens) > min_suffix_tokens
    THEN PopSuffix(prefix_tokens, Pop0(suffix_tokens), max_tokens, min_suffix_tokens)
    ELSE suffix_tokens

\* InsertionPrompt.truncate_prompt without the test of the minimums
InsertionPrompt_truncate_prompt_unchecked(p, max_tokens) ==
    LET prefix_tokens == Encode(p.prefix)
        suffix_tokens == Encode(p.suffix)
        prefix_left   == PopPrefix(prefix_tokens, suffix_tokens, max_tokens, 0)
        suffix_left   == PopSuffix(prefix_left, suffix_tokens, max_tokens, 0)
    IN  IF Len(prefix_tokens) + Len(suffix_tokens) <= max_tokens THEN Truncated(p, None)
        ELSE Truncated([p EXCEPT !.prefix = Decode(prefix_left),
                                 !.suffix = Decode(suffix_left)], None)

\* InsertionPrompt.truncate_prompt
InsertionPrompt_truncate_prompt(p, max_tokens) ==
    LET prefix_tokens == Encode(p.prefix)
        suffix_tokens == Encode(p.suffix)
        prefix_left   == PopPrefix(prefix_tokens, suffix_tokens, max_tokens,
                                   p.min_prefix_tokens)
        suffix_left   == PopSuffix(prefix_left, suffix_tokens, max_tokens,
                                   p.min_suffix_tokens)
    IN  IF Len(prefix_tokens) + Len(suffix_tokens) <= max_tokens THEN Truncated(p, None)
        ELSE IF p.min_prefix_tokens + p.min_suffix_tokens > max_tokens
             THEN Truncated(p, "ValueError")
        ELSE Truncated([p EXCEPT !.prefix = Decode(prefix_left),
                                 !.suffix = Decode(suffix_left)], None)

\* most tokens of a completion prompt
MaxTokens == 3

\* most tokens of the prefix, and of the suffix, of an insertion prompt
MaxPartTokens == 2

\* largest token budget
MaxBudget == 4

\* largest minimum of a part
MaxMinimum == 2

\* most calls of truncate_prompt on one prompt
MaxTruncations == 2

\* the words texts are made of
Words == {<<"a">>, <<"b", "c">>}

RECURSIVE JoinWords(_)
\* the words with a space between them
JoinWords(words) ==
    IF Len(words) = 0 THEN <<>>
    ELSE IF Len(words) = 1 THEN words[1]
    ELSE words[1] \o <<" ">> \o JoinWords(Tail(words))

\* the texts of at most n words
TextsOf(n) == {JoinWords(ws) : ws \in UNION {[1..k -> Words] : k \in 0..n}}

\* the prompts that are truncated
Prompts ==
    {CompletionPrompt(t) : t \in TextsOf(MaxTokens)}
    \cup {InsertionPrompt(pre, suf, mp, ms) :
            pre \in TextsOf(MaxPartTokens), suf \in TextsOf(MaxPartTokens),
            mp \in 0..MaxMinimum, ms \in 0..MaxMinimum}

\* a call of truncate_prompt has been made: what it left
AfterTruncation(r) ==
    truncation' = [truncation EXCEPT !.before_last = truncation.now,
                                     !.now = r.prompt,
                                     !.raised = r.raised,
                                     !.done = truncation.done + 1]

\* CompletionPrompt.truncate_prompt(max_tokens)
TruncateCompletionPrompt ==
    /\ truncation.now.kind = "CompletionPrompt"
    /\ truncation.done < MaxTruncations
    /\ AfterTruncation(CompletionPrompt_truncate_prompt(truncation.now,
                                                        truncation.max_tokens))
    /\ UNCHANGED <<compiler_vars, source, current_line_idx, parsing, children, exception,
                   cli_pc, args, stderr, output_file>>

\* InsertionPrompt.truncate_prompt(max_tokens)
TruncateInsertionPrompt ==
    /\ truncation.now.kind = "InsertionPrompt"
    /\ truncation.done < MaxTruncations
    /\ AfterTruncation(InsertionPrompt_truncate_prompt(truncation.now,
                                                       truncation.max_tokens))
    /\ UNCHANGED <<compiler_vars, source, current_line_idx, parsing, children, exception,
                   cli_pc, args, stderr, output_file>>

InitTruncate ==
    /\ CompilerIdle
    /\ source = NoSource
    /\ current_line_idx = 0
    /\ parsing = "idle"
    /\ children = <<>>
    /\ exception = NoException
    /\ truncation \in {[NoTruncation EXCEPT !.original = p, !.now = p, !.before_last = p,
                                            !.max_tokens = b] :
                          p \in Prompts, b \in 0..MaxBudget}
    /\ cli_pc = "idle"
    /\ args = NoArgs
    /\ stderr = <<>>
    /\ output_file = NoOutput

NextTruncate ==
    \/ TruncateCompletionPrompt
    \/ TruncateInsertionPrompt

SpecTruncate == InitTruncate /\ [][NextTruncate]_vars

\* the tokens are the last tokens of the sequence
IsTrailing(tokens, of) ==
    /\ Len(tokens) <= Len(of)
    /\ tokens = SubSeq(of, Len(of) - Len(tokens) + 1, Len(of))

\* the tokens are the first tokens of the sequence
IsLeading(tokens, of) ==
    /\ Len(tokens) <= Len(of)
    /\ tokens = SubSeq(of, 1, Len(tokens))

\* the prompt the first call of truncate_prompt left
AfterFirst == IF truncation.done = 1 THEN truncation.now ELSE truncation.before_last

\* what the first call of truncate_prompt raised
RaisedByFirst ==
    InsertionPrompt_truncate_prompt(truncation.original, truncation.max_tokens).raised

C14_InsertionTruncation ==
    (/\ truncation.original.kind = "InsertionPrompt"
     /\ truncation.done >= 1
     /\ truncation.original.min_prefix_tokens = 0
     /\ truncation.original.min_suffix_tokens = 0
     /\ get_token_count(truncation.original) > truncation.max_tokens) =>
        LET prefix      == Encode(truncation.original.prefix)
            suffix      == Encode(truncation.original.suffix)
            prefix_left == Encode(AfterFirst.prefix)
            suffix_left == Encode(AfterFirst.suffix)
        IN  /\ IsTrailing(prefix_left, prefix)
            /\ IsLeading(suffix_left, suffix)
            /\ Len(suffix_left) < Len(suffix) => prefix_left = <<>>
            /\ Len(prefix_left) + Len(suffix_left) = truncation.max_tokens

TemperatureTwo == Float(20000)

\* the source files of the command line
CliTexts ==
    {<<>>,
     LineAction,
     LineUsingMath \o <<NL>> \o LineAction,
     LineFoo,
     <<" ">> \o LineAction,
     LineActionGiven \o <<NL>> \o LineFoo,
     LineVar}

\* the input file names of the command line: foo.codex, d/foo.bar.codex
FileNames ==
    {<<"f", "o", "o", ".", "c", "o", "d", "e", "x">>,
     <<"d", "/", "f", "o", "o", ".", "b", "a", "r", ".", "c", "o", "d", "e", "x">>}

\* what -o is given: nothing (None), the empty path, out/, out, result.txt, result
OutputOptions ==
    {NoneText,
     <<>>,
     <<"o", "u", "t", "/">>,
     <<"o", "u", "t">>,
     <<"r", "e", "s", "u", "l", "t", ".", "t", "x", "t">>,
     <<"r", "e", "s", "u", "l", "t">>}

\* the directories there are besides the working directory: none, or out
DirectorySets == {{}, {<<"o", "u", "t">>}}

\* the command lines: the env file without OPENAI_KEY, with an empty one, with a key;
\* a registered target and an unregistered one; a temperature in range and one out of
\* range; the input file, -o and the directories there are
CommandLines ==
    {[NoArgs EXCEPT !.env = e, !.target = l, !.temperature = t, !.text = s, !.output = o,
                    !.filename = f, !.directories = d] :
        e \in {"absent", "empty", "set"},
        l \in {DefaultConfig.target_language_name,
               <<"t", "y", "p", "e", "s", "c", "r", "i", "p", "t">>},
        t \in {DefaultConfig.temperature, TemperatureTwo},
        s \in CliTexts,
        o \in OutputOptions,
        f \in FileNames,
        d \in DirectorySets}

\* an exception leaves the try block
Raise(e) == exception' = e /\ cli_pc' = "raised"

\* args_as_compiler_config(args)
ArgsAsCompilerConfig ==
    /\ cli_pc = "start"
    /\ IF args.env = "absent"
       THEN /\ Raise(OtherError("KeyError", 0, "OPENAI_KEY", <<>>))
            /\ UNCHANGED config
       ELSE IF args.env = "empty"
       THEN /\ Raise(OtherError("CompilerConfigError", 0,
                                "OPENAI_KEY is not set in the .env file.", <<>>))
            /\ UNCHANGED config
       ELSE /\ config' = [target_language_name |-> args.target,
                          openai_key |-> DefaultConfig.openai_key,
                          temperature |-> args.temperature]
            /\ cli_pc' = "validate"
            /\ UNCHANGED exception
    /\ UNCHANGED <<module, status, pc, header, program, errors, warnings, used_modules,
                   custom_types, calls, validation>>
    /\ UNCHANGED <<source, current_line_idx, parsing, children, truncation, args, stderr,
                   output_file>>

\* validate_config(config) that lets the run go on whatever it finds
CliValidateConfigLenient ==
    /\ cli_pc = "validate"
    /\ validation' = validate_config(config)
    /\ cli_pc' = "load"
    /\ UNCHANGED <<module, status, pc, header, program, errors, warnings, used_modules,
                   custom_types, calls, config>>
    /\ UNCHANGED <<source, current_line_idx, parsing, children, exception, truncation,
                   args, stderr, output_file>>

\* validate_config(config)
CliValidateConfig ==
    /\ cli_pc = "validate"
    /\ validation' = validate_config(config)
    /\ IF validation' = "ok"
       THEN cli_pc' = "load" /\ UNCHANGED exception
       ELSE Raise(OtherError("CompilerConfigError", 0, validation', <<>>))
    /\ UNCHANGED <<module, status, pc, header, program, errors, warnings, used_modules,
                   custom_types, calls, config>>
    /\ UNCHANGED <<source, current_line_idx, parsing, children, truncation, args, stderr,
                   output_file>>

\* source = CodexSource.from_file(args.filename), and parse(source) begins
LoadSource ==
    /\ cli_pc = "load"
    /\ source' = CodexSource(args.text)
    /\ current_line_idx' = 0
    /\ parsing' = "running"
    /\ cli_pc' = "parse"
    /\ UNCHANGED <<compiler_vars, children, exception, truncation, args, stderr,
                   output_file>>

\* parse(source) raised
ParseRaised ==
    /\ cli_pc = "parse"
    /\ parsing = "raised"
    /\ cli_pc' = "raised"
    /\ UNCHANGED <<compiler_vars, source, current_line_idx, parsing, children, exception,
                   truncation, args, stderr, output_file>>

\* compiler = Compiler(module, config), and compiler.compile() begins
ConstructCompiler ==
    /\ cli_pc = "parse"
    /\ parsing = "returned"
    /\ IF is_language_supported(config.target_language_name)
       THEN /\ module' = children
            /\ status' = "constructed"
            /\ cli_pc' = "compile"
            /\ UNCHANGED exception
       ELSE /\ Raise(OtherError("ValueError", 0, "Language is not supported", <<>>))
            /\ UNCHANGED <<module, status>>
    /\ UNCHANGED <<pc, header, program, errors, warnings, used_modules, custom_types, calls,
                   config, validation>>
    /\ UNCHANGED <<source, current_line_idx, parsing, children, truncation, args, stderr,
                   output_file>>

\* compiler.compile() raised
CompileRaised ==
    /\ cli_pc = "compile"
    /\ status = "raised"
    /\ Raise(OtherError("Exception", 0, "compile", <<>>))
    /\ UNCHANGED <<compiler_vars, source, current_line_idx, parsing, children, truncation,
                   args, stderr, output_file>>

\* Compiler.get_output
get_output == header \o <<NL, NL>> \o program

RECURSIVE RStripSep(_)
\* the path without the slashes it ends with
RStripSep(path) ==
    IF Len(path) > 0 /\ path[Len(path)] = "/" THEN RStripSep(Take(path, Len(path) - 1))
    ELSE path

\* Path(path).name: the last component of the path
PathName(path) == ListItem(Split(RStripSep(path), "/"), -1)

\* str.rfind(".") counted from one: 0 when the name has no dot
RFindDot(name) ==
    IF \E i \in 1..Len(name) : name[i] = "."
    THEN CHOOSE i \in 1..Len(name) :
             name[i] = "." /\ \A k \in (i + 1)..Len(name) : name[k] # "."
    ELSE 0

\* Path(path).suffix: the name from its last dot on, when that dot is neither the
\* first nor the last character of the name
PathSuffix(path) ==
    IF 1 < RFindDot(PathName(path)) /\ RFindDot(PathName(path)) < Len(PathName(path))
    THEN Drop(PathName(path), RFindDot(PathName(path)) - 1)
    ELSE <<>>

\* os.path.isdir(path) for a path that is a string
isdir(path, directories) == RStripSep(path) \in directories

\* os.path.join(a, b) for a relative b
join(a, b) ==
    IF Len(a) = 0 \/ a[Len(a)] = "/" THEN a \o b ELSE a \o <<"/">> \o b

\* Path(args.filename).name.split(".")[0]
InputBaseName(filename) == Split(PathName(filename), ".")[1]

\* compiler.target.info.source_file_extension of the Python 3 binding
source_file_extension == <<"p", "y">>

\* the output path run_cli works out from a -o that is a string
resolve_output_path(output, filename, directories) ==
    LET joined   == IF isdir(output, directories)
                    THEN join(output, InputBaseName(filename)) ELSE output
        defaulted == IF joined = <<>> THEN InputBaseName(filename) ELSE joined
    IN  IF PathSuffix(defaulted) = <<>> THEN defaulted \o <<".">> \o source_file_extension
        ELSE defaulted

\* the directory part of the path: what is before its last slash
DirName(path) ==
    IF \E i \in 1..Len(path) : path[i] = "/"
    THEN Take(path, (CHOOSE i \in 1..Len(path) :
                         path[i] = "/" /\ \A k \in (i + 1)..Len(path) : path[k] # "/") - 1)
    ELSE <<>>

\* open(path, "w") succeeds: the directory of the path is there, the path is no directory
CanOpen(path, directories) ==
    /\ DirName(path) = <<>> \/ DirName(path) \in directories
    /\ ~isdir(path, directories)

\* the output path is worked out and the output written
WriteOutput ==
    /\ cli_pc = "compile"
    /\ status = "returned"
    /\ IF args.output = NoneText
       THEN /\ Raise(OtherError("TypeError", 0, "os.path.isdir(None)", <<>>))
            /\ UNCHANGED output_file
       ELSE IF ~CanOpen(resolve_output_path(args.output, args.filename, args.directories),
                        args.directories)
       THEN /\ Raise(OtherError("OSError", 0, "open", <<>>))
            /\ UNCHANGED output_file
       ELSE /\ output_file' =
                   [path |-> resolve_output_path(args.output, args.filename,
                                                 args.directories),
                    text |-> get_output]
            /\ cli_pc' = "report"
            /\ UNCHANGED exception
    /\ UNCHANGED <<compiler_vars, source, current_line_idx, parsing, children, truncation,
                   args, stderr>>

\* what is printed for the errors or the warnings of the compiler
Diagnostics(mode, list) ==
    [i \in 1..Len(list) |-> OtherError(mode, i, list[i].message, <<>>)]

\* the line that sums the compilation up; none without errors and warnings
Summary ==
    IF Len(errors) > 0 /\ Len(warnings) = 0
    THEN <<OtherError("summary", 0, "Compilation failed with errors.", <<>>)>>
    ELSE IF Len(errors) = 0 /\ Len(warnings) > 0
    THEN <<OtherError("summary", 0, "Compilation succeeded with warnings.", <<>>)>>
    ELSE IF Len(errors) > 0 /\ Len(warnings) > 0
    THEN <<OtherError("summary", 0, "Compilation failed with errors and warnings.", <<>>)>>
    ELSE <<>>

\* the errors, the warnings and the summary are printed
Report ==
    /\ cli_pc = "report"
    /\ stderr' = stderr \o Diagnostics("MODE_ERROR", errors)
                        \o Diagnostics("MODE_WARNING", warnings) \o Summary
    /\ cli_pc' = "done"
    /\ UNCHANGED <<compiler_vars, source, current_line_idx, parsing, children, exception,
                   truncation, args, output_file>>

\* the except clauses of run_cli; any other exception leaves run_cli
Except ==
    /\ cli_pc = "raised"
    /\ IF exception.type \in {"CompilerConfigError", "CodexSyntaxError"}
       THEN stderr' = Append(stderr, exception) /\ cli_pc' = "done"
       ELSE stderr' = stderr /\ cli_pc' = "crashed"
    /\ UNCHANGED <<compiler_vars, source, current_line_idx, parsing, children, exception,
                   truncation, args, output_file>>

InitCli ==
    /\ CompilerIdle
    /\ source = NoSource
    /\ current_line_idx = 0
    /\ parsing = "idle"
    /\ children = <<>>
    /\ exception = NoException
    /\ truncation = NoTruncation
    /\ cli_pc = "start"
    /\ args \in CommandLines
    /\ stderr = <<>>
    /\ output_file = NoOutput

\* no VariableDeclarationNode leaves the parser, so compile() never is at one
NextCli ==
    \/ ArgsAsCompilerConfig
    \/ CliValidateConfig
    \/ LoadSource
    \/ ParseCurrentLine
    \/ ReturnFromParse
    \/ ParseRaised
    \/ ConstructCompiler
    \/ IncludeDefaultModules
    \/ CompileUsingDirective
    \/ CompileActionStatement
    \/ ReturnFromCompile
    \/ CompileRaised
    \/ WriteOutput
    \/ Report
    \/ Except

SpecCli == InitCli /\ [][NextCli]_vars

(***************************************************************************)
(* C11: configuration and syntax problems end the run.                     *)
(***************************************************************************)
\* nothing has been compiled, requested or written
NothingProduced == status = "idle" /\ calls = <<>> /\ output_file = NoOutput

\* the run has ended on the one diagnostic of the exception
EndedOnDiagnostic == cli_pc \in {"raised", "done"} /\ (cli_pc = "done" => stderr = <<exception>>)

C12_MissingKey ==
    args.env \in {"absent", "empty"} =>
        /\ ~source.loaded /\ parsing = "idle" /\ NothingProduced
        /\ cli_pc \in {"start", "raised", "done"}
        /\ cli_pc # "start" => exception.type = "CompilerConfigError"
        /\ cli_pc = "done" => stderr = <<exception>>

(***************************************************************************)
(* C21: the output path.                                                   *)
(***************************************************************************)
\* the stem of the input file name: its last component without its last extension
InputStem(filename) ==
    Take(PathName(filename), Len(PathName(filename)) - Len(PathSuffix(filename)))

\* the path before the extension of the target is considered: the stem when -o is
\* omitted, the directory joined with the stem when -o names a directory, else -o
PathBeforeExtension ==
    IF args.output = NoneText THEN InputStem(args.filename)
    ELSE IF isdir(args.output, args.directories)
    THEN join(args.output, InputStem(args.filename))
    ELSE args.output

\* run_cli is past working out the output path
PastWriteOutput ==
    status = "returned" /\ cli_pc \in {"report", "done", "raised", "crashed"}

\* C21: when -o is omitted the output path is the stem of the input file name; when -o
\* names an existing directory it is that directory joined with the stem; a path
\* without an extension gets "." and the extension of the target binding appended, and
\* a path given with an extension is used as it is.  Stated for the paths whose
\* directory exists.
C21_OutputPath ==
    (/\ PastWriteOutput
     /\ args.output # <<>>
     /\ DirName(PathBeforeExtension) = <<>> \/ DirName(PathBeforeExtension) \in args.directories)
        => /\ exception = NoException
           /\ output_file.path =
                  IF PathSuffix(PathBeforeExtension) = <<>>
                  THEN PathBeforeExtension \o <<".">> \o source_file_extension
                  ELSE PathBeforeExtension

(***************************************************************************)
(* C22: leading newlines of the generated text.                            *)
(***************************************************************************)
RECURSIVE LStripNewlines(_)
\* str.lstrip("\n")
LStripNewlines(text) ==
    IF Len(text) > 0 /\ text[1] = NL THEN LStripNewlines(Drop(text, 1)) ELSE text

\* the generation template of the statement compile() is at
TemplateAtPc ==
    IF module[pc].kind = "ActionStatementNode"
    THEN generate_action_template(module[pc].prompt)
    ELSE generate_variable_decl_template(
             module[pc].variable_name,
             IF module[pc].type \notin {None, ""}
             THEN resolve_type(custom_types, module[pc].type) ELSE None,
             module[pc].prompt)

\* C22: the text generate_code returns, and the compiler puts in the place of the
\* placeholder of the statement's template, is the generated text of the first choice
\* without its leading newline characters: what is appended to the program buffer is
\* the template with the stripped text, followed by the newline of writeln.
C22_LeadingNewlinesStripped ==
    [][(/\ status = "running"
        /\ pc <= Len(module)
        /\ Len(calls') = Len(calls) + 1
        /\ calls'[Len(calls')].raised = None)
          => program' = Writeln(program,
                                Replace(TemplateAtPc, GENERATED,
                                        LStripNewlines(calls'[Len(calls')].reply.text)))]_vars

(***************************************************************************)
(* C23: a statement is the whole line.                                     *)
(***************************************************************************)
\* the expression matches the string and its match is the whole string
MatchesWhole(expression, string) ==
    /\ Match(expression, string, FALSE).ok
    /\ Match(expression, string, FALSE).matched_string = string

\* C23: a line is accepted as a statement only when one of the candidate grammars
\* matches it and the match consumes the whole de-indented line; a using directive
\* followed by further text is a syntax error and produces no node.
C23_WholeLineMatched ==
    [][(AtLine /\ Len(children') > Len(children))
          => \E i \in 1..Len(CandidateExpressions) :
                 MatchesWhole(CandidateExpressions[i], CurrentLine)]_vars

(***************************************************************************)
(* The parse entry point of the package (codex/parser/__init__.py), which  *)
(* codex/__main__.py calls with the text of a file and codex/cli with a    *)
(* CodexSource.                                                            *)
(***************************************************************************)
\* parse(source) with the text of a file: _Parser(source) replaces the Windows line
\* ends, splits the lines and sets the cursor to the first line
EntryConstructFromText ==
    /\ parsing = "idle"
    /\ ~source.loaded
    /\ source' = [loaded |-> TRUE,
                  content |-> Replace(args.text, <<CR, NL>>, <<NL>>),
                  lines |-> Split(Replace(args.text, <<CR, NL>>, <<NL>>), NL)]
    /\ current_line_idx' = 0
    /\ parsing' = "constructed"
    /\ UNCHANGED <<compiler_vars, children, exception, truncation, cli_pc, args, stderr,
                   output_file>>

\* parse(source) with a CodexSource: _Parser(source) asks it for replace, which a
\* CodexSource does not have
EntryConstructFromSource ==
    /\ parsing = "idle"
    /\ ~source.loaded
    /\ source' = CodexSource(args.text)
    /\ parsing' = "raised"
    /\ exception' = OtherError("AttributeError", 0,
                               "'CodexSource' object has no attribute 'replace'", <<>>)
    /\ UNCHANGED <<compiler_vars, current_line_idx, children, truncation, cli_pc, args,
                   stderr, output_file>>

\* _Parser.parse: Module() is called without the location CodeBlock.__init__ requires
EntryParse ==
    /\ parsing = "constructed"
    /\ parsing' = "raised"
    /\ exception' = OtherError("TypeError", 0,
                               "CodeBlock.__init__() missing 1 required positional argument",
                               <<"location">>)
    /\ UNCHANGED <<compiler_vars, source, current_line_idx, children, truncation, cli_pc,
                   args, stderr, output_file>>

NextEntry ==
    \/ EntryConstructFromText
    \/ EntryConstructFromSource
    \/ EntryParse

SpecEntry == InitParse /\ [][NextEntry]_vars

(***************************************************************************)
(* C24: parsing ends with a Module or a syntax error.                      *)
(***************************************************************************)
\* C24: a run of the parse entry point that the front ends import ends, for every
\* finite source, with a Module returned after get_line_count() rounds of the loop, each
\* of which advances the line cursor by one, or earlier with a syntax error.
C24_EntryPointEnds ==
    [][(parsing \in {"idle", "constructed"} /\ parsing' \notin {"idle", "constructed"})
          => \/ parsing' = "returned" /\ current_line_idx' = get_line_count(source')
             \/ parsing' = "raised" /\ exception'.type = "CodexSyntaxError"]_vars

(***************************************************************************)
(* Two parse runs in one process.  CodeBlock.__init__ has the default      *)
(* children=[] (codex/parser/ast.py line 74): Python evaluates it once, so *)
(* every Module made without children, as Parser.parse makes them, holds   *)
(* that one list, which the variable children is.                          *)
(***************************************************************************)
\* the texts parsed one after the other
TwoParseTexts ==
    {<<>>,
     LineUsingMath,
     LineAction,
     LineUsingMath \o <<NL>> \o LineAction,
     LineComment \o <<NL>> \o LineActionGiven}

\* a Parser for the second source is made and its parse() begins, after the parse() of
\* the first has returned: Module(location) takes the default list once more
ParseSecondSource ==
    /\ parsing = "returned"
    /\ cli_pc = "first"
    /\ source' = CodexSource(args.second_text)
    /\ current_line_idx' = 0
    /\ parsing' = "running"
    /\ cli_pc' = "second"
    /\ UNCHANGED <<compiler_vars, children, exception, truncation, args, stderr,
                   output_file>>

InitTwoParses ==
    /\ CompilerIdle
    /\ source = NoSource
    /\ current_line_idx = 0
    /\ parsing = "idle"
    /\ children = <<>>
    /\ exception = NoException
    /\ truncation = NoTruncation
    /\ cli_pc = "first"
    /\ args \in {[NoArgs EXCEPT !.text = a, !.second_text = b] :
                     a \in TwoParseTexts, b \in TwoParseTexts}
    /\ stderr = <<>>
    /\ output_file = NoOutput

NextTwoParses ==
    \/ ConstructSource
    \/ ParseCurrentLine
    \/ ReturnFromParse
    \/ ParseSecondSource

SpecTwoParses == InitTwoParses /\ [][NextTwoParses]_vars

(***************************************************************************)
(* C25: every Module has its own children.                                 *)
(***************************************************************************)
RECURSIVE NodesFrom(_, _)
\* the nodes of the statements of the source from line index idx on, in line order
NodesFrom(src, idx) ==
    IF idx >= get_line_count(src) THEN <<>>
    ELSE (IF parse_current_line(src, idx, 0).node # NoNode
          THEN <<parse_current_line(src, idx, 0).node>> ELSE <<>>)
         \o NodesFrom(src, idx + 1)

\* C25: Modules returned by separate parse runs of one process do not share their
\* children: after source A and then source B have been parsed, the children of the
\* Module of B are the nodes of the statements of B in line order, those of A not among
\* them (and the children of the Module of A are not changed by the second run).
C25_ModulesOwnChildren ==
    (cli_pc = "second" /\ parsing = "returned") => children = NodesFrom(source, 0)

(***************************************************************************)
(* The prompt with its context (codex/compiler/codegen.py).                *)
(***************************************************************************)
\* ensure_trailing_newline
ensure_trailing_newline(text) ==
    IF Len(text) > 0 /\ text[Len(text)] = NL THEN text ELSE text \o <<NL>>

\* info.display_name of the Python 3 binding
display_name == <<"P", "y", "t", "h", "o", "n", " ", "3">>

\* CodegenContext(required_context, helpful_context)
CodegenContext(required_context, helpful_context) ==
    [set |-> TRUE, required_context |-> required_context,
     helpful_context |-> helpful_context]

\* build_contextualized_prompt: the language comment, an empty line, the required context
RequiredContextBlock(context) ==
    ensure_trailing_newline(generate_single_line_comment(display_name))
        \o <<NL>> \o ensure_trailing_newline(context.required_context)

\* what build_contextualized_prompt does: the prompt it returns, the prompt it was
\* given as the call leaves it, and the exception it raises
Contextualized(returned, passed, raised) ==
    [returned |-> returned, passed |-> passed, raised |-> raised]

\* the helpful context is put before the text of the prompt that is truncated
WithHelpfulContext(context, prompt) ==
    IF prompt.kind = "CompletionPrompt"
    THEN [prompt EXCEPT !.prompt = ensure_trailing_newline(context.helpful_context) \o @]
    ELSE [prompt EXCEPT !.prefix = ensure_trailing_newline(context.helpful_context) \o @]

\* the required context is put before the text of the truncated prompt
WithRequiredContext(context, prompt) ==
    IF prompt.kind = "CompletionPrompt"
    THEN [prompt EXCEPT !.prompt = RequiredContextBlock(context) \o @]
    ELSE [prompt EXCEPT !.prefix = RequiredContextBlock(context) \o @]

\* truncate_prompt of the class of the prompt
truncate_prompt(prompt, max_tokens) ==
    IF prompt.kind = "CompletionPrompt"
    THEN CompletionPrompt_truncate_prompt(prompt, max_tokens)
    ELSE InsertionPrompt_truncate_prompt(prompt, max_tokens)

\* build_contextualized_prompt that truncates after the required context is put in front
build_contextualized_prompt_truncating_last(context, prompt, token_limit) ==
    IF ~context.set THEN Contextualized(prompt, prompt, None)
    ELSE IF token_limit - count_tokens(RequiredContextBlock(context)) <= 0
    THEN Contextualized(NoPrompt, prompt, "RequiredContextTooLong")
    ELSE Contextualized(
             truncate_prompt(WithRequiredContext(context,
                                                 WithHelpfulContext(context, prompt)),
                             token_limit).prompt,
             prompt, None)

\* Codegen.build_contextualized_prompt for a Codegen of that token limit and context
build_contextualized_prompt(context, prompt, token_limit) ==
    IF ~context.set THEN Contextualized(prompt, prompt, None)
    ELSE IF token_limit - count_tokens(RequiredContextBlock(context)) <= 0
    THEN Contextualized(NoPrompt, prompt, "RequiredContextTooLong")
    ELSE IF truncate_prompt(WithHelpfulContext(context, prompt),
                            token_limit - count_tokens(RequiredContextBlock(context))
                           ).raised # None
    THEN Contextualized(NoPrompt, prompt, "ValueError")
    ELSE Contextualized(
             WithRequiredContext(
                 context,
                 truncate_prompt(WithHelpfulContext(context, prompt),
                                 token_limit - count_tokens(RequiredContextBlock(context))
                                ).prompt),
             prompt, None)

\* most words of the helpful context, and of the text of a statement prompt
MaxContextWords == 2

\* largest prompt token limit of a Codegen
MaxLimit == 7

\* the contexts: none set, and a required context that is empty or an import, with the
\* helpful contexts of at most MaxContextWords words
Contexts ==
    {NoContext}
    \cup {CodegenContext(r, h) :
             r \in {<<>>, <<"i", "m", "p", "o", "r", "t", " ", "m", "a", "t", "h">>},
             h \in TextsOf(MaxContextWords)}

\* the statement prompts, and insertion prompts of one word a part
ContextPrompts ==
    {CompletionPrompt(t) : t \in TextsOf(MaxContextWords)}
    \cup {InsertionPrompt(pre, suf, mn, mn) :
            pre \in TextsOf(1), suf \in TextsOf(1), mn \in 0..1}

\* one call of build_contextualized_prompt
BuildContextualizedPrompt ==
    /\ truncation.done = 0
    /\ LET r == build_contextualized_prompt(truncation.context, truncation.original,
                                            truncation.max_tokens)
       IN  truncation' = [truncation EXCEPT !.now = r.returned,
                                            !.before_last = r.passed,
                                            !.raised = r.raised,
                                            !.done = 1]
    /\ UNCHANGED <<compiler_vars, source, current_line_idx, parsing, children, exception,
                   cli_pc, args, stderr, output_file>>

InitContext ==
    /\ CompilerIdle
    /\ source = NoSource
    /\ current_line_idx = 0
    /\ parsing = "idle"
    /\ children = <<>>
    /\ exception = NoException
    /\ truncation \in {[NoTruncation EXCEPT !.original = p, !.now = p, !.before_last = p,
                                            !.max_tokens = l, !.context = c] :
                          p \in ContextPrompts, l \in 1..MaxLimit, c \in Contexts}
    /\ cli_pc = "idle"
    /\ args = NoArgs
    /\ stderr = <<>>
    /\ output_file = NoOutput

NextContext == BuildContextualizedPrompt

SpecContext == InitContext /\ [][NextContext]_vars

(***************************************************************************)
(* C26: the contextualized prompt.                                         *)
(***************************************************************************)
\* the text of the helpful context followed by the text of the statement prompt
HelpfulAndPrompt ==
    ensure_trailing_newline(truncation.context.helpful_context)
        \o truncation.original.prompt

\* what the returned prompt has after the required-context block
AfterRequiredContext ==
    Drop(truncation.now.prompt, Len(RequiredContextBlock(truncation.context)))

\* the tokens left for the prompt once the required-context block is counted
TokensLeft ==
    truncation.max_tokens - count_tokens(RequiredContextBlock(truncation.context))

MatchExpressions ==
    {Literal(<<"a">>),
     Literal_case_insensitive(<<"a", "b">>),
     SYMBOL_NAME,
     with_name(CompoundExpression(
                   <<ExprComponent(Literal_case_insensitive(<<"a", "b">>), FALSE, None),
                     ExprComponent(SYMBOL_NAME, FALSE, GROUP_SYMBOL_NAME)>>),
               "ab and a name"),
     with_name(CompoundExpression(
                   <<ExprComponent(Literal(<<"a">>), FALSE, None),
                     ExprComponent(with_name(Repeated(WHITESPACE, 0), "spaces"), TRUE, None),
                     ExprComponent(SYMBOL_NAME, FALSE, GROUP_SYMBOL_NAME)>>),
               "a and a name"),
     with_name(UnionExpression(<<Literal(<<"a">>), WHITESPACE>>), "a or whitespace"),
     with_name(Repeated(Literal(<<"a">>), 0), "zero or more 'a'"),
     with_name(Repeated(Literal(<<"a">>), 1), "one or more 'a'"),
     with_name(Repeated(with_name(UnionExpression(<<Literal(<<"a">>), WHITESPACE>>),
                                  "a or whitespace"), 1),
               "one or more a or whitespace"),
     AIGenerativeParametersMultiple,
     ActionStatement,
     VariableDeclaration,
     UsingDirective}

\* the strings the expressions are matched against
MatchStrings ==
    {<<>>,
     <<"a">>,
     <<"a", "a", "b">>,
     <<"a", "b">>,
     <<"a", "b", "c">>,
     <<"A", "B", "c">>,
     <<"A", "B">>,
     <<"a", " ", "b">>,
     <<" ", "a">>,
     <<"b">>,
     <<"[", "a", ",", " ", "b", "]">>,
     <<"!", " ", "[", "a", ",", " ", "b", "]", ":", " ", "h", "i">>,
     <<"!", ":", " ", "h", "i">>,
     <<"u", "s", "i", "n", "g", " ", "m", "a", "t", "h">>,
     <<"v", "a", "r", " ", "i", "n", "t", " ", "x", " ", "[", "a", "]", ":", " ", "t">>,
     <<"v", "a", "r", " ", "i", "n", "t", " ", "x", ":", " ", "t">>,
     <<"v", "a", "r", " ", "x", " ", "[", "a", "]", ":", " ", "t">>,
     <<"v", "a", "r", " ", "x", " ", ":", " ", "t">>,
     <<"v", "a", "r", " ", "x", ":", " ", "t">>}

\* expression.match(string) and expression.match(string, throw_on_failure=True)
MatchBothWays ==
    /\ parsing = "idle"
    /\ children = <<>>
    /\ children' = <<[plain |-> Match(args.expression, args.text, FALSE),
                      throwing |-> Match(args.expression, args.text, TRUE)]>>
    /\ UNCHANGED <<compiler_vars, source, current_line_idx, parsing, exception, truncation,
                   cli_pc, args, stderr, output_file>>

InitMatch ==
    /\ CompilerIdle
    /\ source = NoSource
    /\ current_line_idx = 0
    /\ parsing = "idle"
    /\ children = <<>>
    /\ exception = NoException
    /\ truncation = NoTruncation
    /\ cli_pc = "idle"
    /\ args \in {[NoArgs EXCEPT !.text = string, !.expression = expression] :
                    string \in MatchStrings, expression \in MatchExpressions}
    /\ stderr = <<>>
    /\ output_file = NoOutput

NextMatch == MatchBothWays

SpecMatch == InitMatch /\ [][NextMatch]_vars

(***************************************************************************)
(* C27: asking for the error does not change a match.                      *)
(***************************************************************************)
\* C27: for every expression (Literal, Regex, Compound, Union, Repeated and nestings)
\* and every string, when match without throw_on_failure returns a result, match with
\* throw_on_failure returns the same result and raises nothing
C27_ThrowKeepsMatch ==
    (children # <<>> /\ children[1].plain.ok)
        => /\ ~children[1].throwing.threw
           /\ children[1].throwing = children[1].plain

(***************************************************************************)
(* C28: what a Literal consumes.                                           *)
(***************************************************************************)
\* the first component of the compound expression matched against the whole string
FirstComponentMatch ==
    Match(args.expression.components[1].expression, args.text, FALSE)

\* C28: a successful Literal match, case sensitive or not, has matched the first
\* len(literal) characters of the string; and in a compound expression whose first
\* component is a Literal that matches, the components after it are matched against
\* the string from right after those len(literal) characters
C28_LiteralLength ==
    children # <<>>
        => /\ (args.expression.class = "Literal" /\ children[1].plain.ok)
                => children[1].plain.matched_string
                       = Take(args.text, Len(args.expression.literal))
           /\ (/\ args.expression.class = "CompoundExpression"
               /\ args.expression.components[1].expression.class = "Literal"
               /\ FirstComponentMatch.ok)
                => children[1].plain
                       = SoftMatchFrom(
                             args.expression.components, 2,
                             Drop(args.text,
                                  Len(args.expression.components[1].expression.literal)),
                             FALSE,
                             AddComponent(
                                 MatchResult(<<>>), args.expression.components[1],
                                 MatchResult(
                                     Take(args.text,
                                          Len(args.expression.components[1]
                                                  .expression.literal)))))

(***************************************************************************)
(* C30: a variable declaration without a type.                             *)
(***************************************************************************)
\* declarations of x without a type, with whitespace after the name
UntypedDeclarations ==
    {<<"v", "a", "r", " ", "x", " ", "[", "a", "]", ":", " ", "t">>,
     <<"v", "a", "r", " ", "x", " ", ":", " ", "t">>}

\* the given-list written on the declaration
WrittenGiven(line) == IF \E i \in 1..Len(line) : line[i] = "[" THEN <<<<"a">>>> ELSE <<>>

\* C30: a variable declaration without a type whose name is followed by whitespace
\* (`var x [a]: t`, `var x : t`) matches the grammar of the variable declaration with
\* symbol x, no declared type, and the given-list and prompt text as written
C30_UntypedDeclaration ==
    (/\ children # <<>>
     /\ args.expression = VariableDeclaration
     /\ args.text \in UntypedDeclarations)
        => /\ children[1].plain.ok
           /\ get_named_group(children[1].plain, GROUP_SYMBOL_NAME).matched_string = <<"x">>
           /\ ~has_named_group(children[1].plain, GROUP_OPTIONAL_TYPE)
           /\ extract_prompt(get_named_group(children[1].plain, GROUP_PROMPT))
                  = PromptData(<<"t">>, WrittenGiven(args.text))

(***************************************************************************)
(* C29: module inclusion never raises.                                     *)
(***************************************************************************)
\* the step includes modules: the first loop of compile(), or a using directive
InclusionStep ==
    \/ status = "constructed"
    \/ status = "running" /\ pc <= Len(module) /\ module[pc].kind = "UsingDirectiveNode"

\* the registry holds the types of the included modules and no other, no two included
\* modules bring the same type, no registered type has the name of a base type, and
\* every included module has a binding
C29_Registry ==
    /\ custom_types = UNION {TypesOf(name) : name \in used_modules}
    /\ \A m, n \in used_modules : m # n => TypesOf(m) \cap TypesOf(n) = {}
    /\ custom_types \cap Range(BASE_TYPES) = {}
    /\ \A name \in used_modules : get_module_binding(get_standard_module(name)) # NoBinding

\* a step that includes modules does not raise
C29_Step == InclusionStep => status' # "raised"

\* C29: within one compile() run against the Python 3 binding, for any sequence of using
\* directives (built-in, unknown and repeated names, in any order), module inclusion
\* never raises: no type is registered twice, no registered type has the name of a base
\* type, the binding of an included module is never absent, and the type registry holds
\* exactly the types of the modules in the included set
C29_InclusionNeverRaises == []C29_Registry /\ [][C29_Step]_vars

\* C29 witness: a module that brings a type has been included by a using directive,
\* after a using directive of an unknown module and before a repeated one
C29_Witness ==
    /\ status = "returned"
    /\ "linalg" \in used_modules
    /\ custom_types = {"array", "matrix"}
    /\ \E i, j, k \in Processed :
          /\ i < j /\ j < k
          /\ IsUsingOf(i, "bogus")
          /\ IsUsingOf(j, "linalg")
          /\ IsUsingOf(k, "linalg")

====
